---- MODULE Spec2Model ----
(***************************************************************************)
(* A model of scripts/lsp_codegen.py: the lowering of an LSP metaModel     *)
(* schema to a C++ header.  The generator is a straight-line pipeline;     *)
(* the state machine follows generate_protocol_header step by step:        *)
(*   parse -> name map -> dependency graph (one struct per step, in the    *)
(*   order the unordered name set yields them) -> Kahn's algorithm (one    *)
(*   pop per step) -> emission (one block per step) -> extras and traits.  *)
(*                                                                         *)
(* A Python str is modelled as a sequence of one-character strings, so     *)
(* that the character-level functions (camel_to_snake, the sanitizers,     *)
(* sorted) are computed as the code computes them.  A rendered C++ type    *)
(* is a sequence of chunks whose concatenation is the rendered text: a     *)
(* name contributes its characters, fixed text such as "std::vector<"      *)
(* one chunk.                                                              *)
(***************************************************************************)
EXTENDS Integers, Sequences, FiniteSets, TLC

\* ------------------------------------------------------------ characters

\* The ASCII characters the model's names are written with, in ascending
\* code point order (the order Python's str comparison uses).
CharOrder ==
    <<"$", "-", ".", "/",
      "0", "1", "2", "3", "4", "5", "6", "7", "8", "9",
      "A", "B", "C", "D", "E", "F", "G", "H", "I", "J", "K", "L", "M",
      "N", "O", "P", "Q", "R", "S", "T", "U", "V", "W", "X", "Y", "Z",
      "_",
      "a", "b", "c", "d", "e", "f", "g", "h", "i", "j", "k", "l", "m",
      "n", "o", "p", "q", "r", "s", "t", "u", "v", "w", "x", "y", "z">>

Code(c) == CHOOSE i \in DOMAIN CharOrder : CharOrder[i] = c

isdigit(c) == c \in {"0", "1", "2", "3", "4", "5", "6", "7", "8", "9"}

isupper(c) ==
    c \in {"A", "B", "C", "D", "E", "F", "G", "H", "I", "J", "K", "L", "M",
           "N", "O", "P", "Q", "R", "S", "T", "U", "V", "W", "X", "Y", "Z"}

islower(c) ==
    c \in {"a", "b", "c", "d", "e", "f", "g", "h", "i", "j", "k", "l", "m",
           "n", "o", "p", "q", "r", "s", "t", "u", "v", "w", "x", "y", "z"}

isalnum(c) == isdigit(c) \/ isupper(c) \/ islower(c)

\* str.lower() of one character: upper and lower case letters are 27 apart
\* in CharOrder ("_" sits between them).
lower(c) == IF isupper(c) THEN CharOrder[Code(c) + 27] ELSE c

\* str.upper() of one character
upper(c) == IF islower(c) THEN CharOrder[Code(c) - 27] ELSE c

\* Python's None, for `str | None` values: no name equals it, a name being
\* a sequence of single characters.
None == <<"None">>

\* ------------------------------------------------------------ ordering

\* The sort key of a str: its code points.
StrKey(s) == [i \in DOMAIN s |-> Code(s[i])]

\* Lexicographic order on keys, as Python compares str and tuple.
RECURSIVE KeyLess(_, _)
KeyLess(a, b) ==
    IF b = <<>> THEN FALSE
    ELSE IF a = <<>> THEN TRUE
    ELSE IF Head(a) # Head(b) THEN Head(a) < Head(b)
    ELSE KeyLess(Tail(a), Tail(b))

\* Insert x behind every element whose key is not greater (sorted is stable).
RECURSIVE InsertByKey(_, _)
InsertByKey(x, s) ==
    IF s = <<>> THEN <<x>>
    ELSE IF KeyLess(x.key, Head(s).key) THEN <<x>> \o s
    ELSE <<Head(s)>> \o InsertByKey(x, Tail(s))

\* sorted(items, key=...): items is a sequence of [key, val] records.
RECURSIVE SortByKey(_)
SortByKey(items) ==
    IF items = <<>> THEN <<>>
    ELSE InsertByKey(items[Len(items)], SortByKey(SubSeq(items, 1, Len(items) - 1)))

Vals(items) == [i \in DOMAIN items |-> items[i].val]

\* sorted(list_of_str)
SortedStrs(names) ==
    Vals(SortByKey([i \in DOMAIN names |-> [key |-> StrKey(names[i]), val |-> names[i]]]))

\* Some enumeration of a finite set as a sequence (the order is immaterial
\* wherever this is used: the result is sorted afterwards).
RECURSIVE SetToSeq(_)
SetToSeq(S) ==
    IF S = {} THEN <<>>
    ELSE LET x == CHOOSE y \in S : TRUE IN <<x>> \o SetToSeq(S \ {x})

Range(s) == {s[i] : i \in DOMAIN s}

\* A local variable: Body applied to a value computed once.
Bind(value, Body(_)) == Body(value)

\* ------------------------------------------------------------ identifiers

CPP_KEYWORDS == {
    <<"a","l","i","g","n","a","s">>, <<"a","l","i","g","n","o","f">>, <<"a","n","d">>,
    <<"a","n","d","_","e","q">>, <<"a","s","m">>, <<"a","u","t","o">>,
    <<"b","i","t","a","n","d">>, <<"b","i","t","o","r">>, <<"b","o","o","l">>,
    <<"b","r","e","a","k">>, <<"c","a","s","e">>, <<"c","a","t","c","h">>, <<"c","h","a","r">>,
    <<"c","h","a","r","8","_","t">>, <<"c","h","a","r","1","6","_","t">>,
    <<"c","h","a","r","3","2","_","t">>, <<"c","l","a","s","s">>, <<"c","o","m","p","l">>,
    <<"c","o","n","c","e","p","t">>, <<"c","o","n","s","t">>,
    <<"c","o","n","s","t","e","v","a","l">>, <<"c","o","n","s","t","e","x","p","r">>,
    <<"c","o","n","s","t","i","n","i","t">>, <<"c","o","n","s","t","_","c","a","s","t">>,
    <<"c","o","n","t","i","n","u","e">>, <<"c","o","_","a","w","a","i","t">>,
    <<"c","o","_","r","e","t","u","r","n">>, <<"c","o","_","y","i","e","l","d">>,
    <<"d","e","c","l","t","y","p","e">>, <<"d","e","f","a","u","l","t">>,
    <<"d","e","l","e","t","e">>, <<"d","o">>, <<"d","o","u","b","l","e">>,
    <<"d","y","n","a","m","i","c","_","c","a","s","t">>, <<"e","l","s","e">>,
    <<"e","n","u","m">>, <<"e","x","p","l","i","c","i","t">>, <<"e","x","p","o","r","t">>,
    <<"e","x","t","e","r","n">>, <<"f","a","l","s","e">>, <<"f","l","o","a","t">>,
    <<"f","o","r">>, <<"f","r","i","e","n","d">>, <<"g","o","t","o">>, <<"i","f">>,
    <<"i","n","l","i","n","e">>, <<"i","n","t">>, <<"l","o","n","g">>,
    <<"m","u","t","a","b","l","e">>, <<"n","a","m","e","s","p","a","c","e">>, <<"n","e","w">>,
    <<"n","o","e","x","c","e","p","t">>, <<"n","o","t">>, <<"n","o","t","_","e","q">>,
    <<"n","u","l","l","p","t","r">>, <<"o","p","e","r","a","t","o","r">>, <<"o","r">>,
    <<"o","r","_","e","q">>, <<"p","r","i","v","a","t","e">>,
    <<"p","r","o","t","e","c","t","e","d">>, <<"p","u","b","l","i","c">>,
    <<"r","e","g","i","s","t","e","r">>,
    <<"r","e","i","n","t","e","r","p","r","e","t","_","c","a","s","t">>,
    <<"r","e","q","u","i","r","e","s">>, <<"r","e","t","u","r","n">>, <<"s","h","o","r","t">>,
    <<"s","i","g","n","e","d">>, <<"s","i","z","e","o","f">>, <<"s","t","a","t","i","c">>,
    <<"s","t","a","t","i","c","_","a","s","s","e","r","t">>,
    <<"s","t","a","t","i","c","_","c","a","s","t">>, <<"s","t","r","u","c","t">>,
    <<"s","w","i","t","c","h">>, <<"t","e","m","p","l","a","t","e">>, <<"t","h","i","s">>,
    <<"t","h","r","e","a","d","_","l","o","c","a","l">>, <<"t","h","r","o","w">>,
    <<"t","r","u","e">>, <<"t","r","y">>, <<"t","y","p","e","d","e","f">>,
    <<"t","y","p","e","i","d">>, <<"t","y","p","e","n","a","m","e">>, <<"u","n","i","o","n">>,
    <<"u","n","s","i","g","n","e","d">>, <<"u","s","i","n","g">>,
    <<"v","i","r","t","u","a","l">>, <<"v","o","i","d">>, <<"v","o","l","a","t","i","l","e">>,
    <<"w","c","h","a","r","_","t">>, <<"w","h","i","l","e">>, <<"x","o","r">>,
    <<"x","o","r","_","e","q">>
}

RECURSIVE camel_to_snake_from(_, _)
camel_to_snake_from(name, i) ==
    IF i > Len(name) THEN <<>>
    ELSE LET c == name[i]
             boundary ==
                 /\ i > 1
                 /\ \/ islower(name[i - 1])
                    \/ (i + 1 <= Len(name) /\ islower(name[i + 1]))
         IN  (IF isupper(c)
              THEN (IF boundary THEN <<"_">> ELSE <<>>) \o <<lower(c)>>
              ELSE <<c>>)
             \o camel_to_snake_from(name, i + 1)

camel_to_snake(name) == camel_to_snake_from(name, 1)

\* [c if c.isalnum() or c == "_" else "_" for c in name]
ReplaceNonWord(name) ==
    [i \in DOMAIN name |-> IF isalnum(name[i]) \/ name[i] = "_" THEN name[i] ELSE "_"]

\* str.strip("_")
RECURSIVE lstrip_underscore(_)
lstrip_underscore(s) ==
    IF s # <<>> /\ Head(s) = "_" THEN lstrip_underscore(Tail(s)) ELSE s

RECURSIVE rstrip_underscore(_)
rstrip_underscore(s) ==
    IF s # <<>> /\ s[Len(s)] = "_"
    THEN rstrip_underscore(SubSeq(s, 1, Len(s) - 1))
    ELSE s

strip_underscore(s) == rstrip_underscore(lstrip_underscore(s))

\* Returns the pair (text, keyword_hit) as a record.
sanitize_identifier(name, fallback) ==
    Bind(strip_underscore(ReplaceNonWord(name)), LAMBDA stripped :
    Bind(IF stripped = <<>> THEN fallback ELSE stripped, LAMBDA nonempty :
    Bind(IF isdigit(nonempty[1]) THEN <<"_">> \o nonempty ELSE nonempty, LAMBDA text :
    Bind(text \in CPP_KEYWORDS, LAMBDA keyword_hit :
        [ text |-> IF keyword_hit THEN text \o <<"_">> ELSE text,
          keyword_hit |-> keyword_hit ]))))

sanitize_type_identifier(name, fallback) ==
    Bind(ReplaceNonWord(name), LAMBDA replaced :
    Bind(IF replaced = <<>> THEN fallback ELSE replaced, LAMBDA nonempty :
    Bind(IF isdigit(nonempty[1]) THEN <<"T", "_">> \o nonempty ELSE nonempty, LAMBDA undigit :
    Bind(IF undigit[1] = "_" THEN <<"L", "s", "p">> \o undigit ELSE undigit, LAMBDA prefixed :
        IF prefixed \in CPP_KEYWORDS THEN prefixed \o <<"_">> ELSE prefixed))))

FallbackType == <<"T", "y", "p", "e">>
FallbackField == <<"f", "i", "e", "l", "d">>
FallbackBase == <<"b", "a", "s", "e">>

\* str(n) for a natural number n
RECURSIVE IntToStr(_)
IntToStr(n) ==
    LET digit == CharOrder[Code("0") + (n % 10)]
    IN  IF n < 10 THEN <<digit>> ELSE IntToStr(n \div 10) \o <<digit>>


\* re.sub(r"[^0-9A-Za-z_]+", "_", text): every run of other characters
\* becomes one underscore.
RECURSIVE NormalizeRuns(_, _)
NormalizeRuns(text, i) ==
    IF i > Len(text) THEN <<>>
    ELSE LET word(c) == isalnum(c) \/ c = "_"
         IN  IF word(text[i]) THEN <<text[i]>> \o NormalizeRuns(text, i + 1)
             ELSE IF i > 1 /\ ~word(text[i - 1]) THEN NormalizeRuns(text, i + 1)
             ELSE <<"_">> \o NormalizeRuns(text, i + 1)

\* [part for part in s.split(sep) if part], for a one-character sep
RECURSIVE SplitNonEmpty(_, _, _)
SplitNonEmpty(s, sep, part) ==
    IF s = <<>> THEN (IF part = <<>> THEN <<>> ELSE <<part>>)
    ELSE IF Head(s) = sep
         THEN (IF part = <<>> THEN <<>> ELSE <<part>>) \o SplitNonEmpty(Tail(s), sep, <<>>)
         ELSE SplitNonEmpty(Tail(s), sep, part \o <<Head(s)>>)

\* "".join(part[:1].upper() + part[1:] for part in parts)
RECURSIVE CapitalizeJoin(_)
CapitalizeJoin(parts) ==
    IF parts = <<>> THEN <<>>
    ELSE <<upper(Head(parts)[1])>> \o Tail(Head(parts)) \o CapitalizeJoin(Tail(parts))

enum_member_upper_camel(text, fallback) ==
    Bind(SplitNonEmpty(camel_to_snake(NormalizeRuns(text, 1)), "_", <<>>), LAMBDA parts :
    Bind(IF parts # <<>> THEN CapitalizeJoin(parts) ELSE fallback, LAMBDA candidate :
    Bind(IF isdigit(candidate[1]) THEN <<"V">> \o candidate ELSE candidate, LAMBDA undigit :
        IF undigit \in CPP_KEYWORDS THEN undigit \o <<"_">> ELSE undigit)))

\* ------------------------------------------------------------ name map

\* The while loop of build_name_map: the first base_<suffix> not in used.
RECURSIVE next_free_candidate(_, _, _)
next_free_candidate(base, suffix, used) ==
    LET candidate == base \o <<"_">> \o IntToStr(suffix)
    IN  IF candidate \in used
        THEN next_free_candidate(base, suffix + 1, used)
        ELSE candidate

\* dict[key] = value
WithEntry(dict, key, value) ==
    [k \in DOMAIN dict \cup {key} |-> IF k = key THEN value ELSE dict[k]]

\* Mutation: the suffix is the number of earlier names with the same base,
\* as unique_member_name counts them, instead of a search for a free name.
RECURSIVE build_name_map_counting(_, _, _)
build_name_map_counting(names, out, seen) ==
    IF names = <<>> THEN out
    ELSE Bind(sanitize_type_identifier(Head(names), FallbackType), LAMBDA base :
         Bind(Cardinality({i \in DOMAIN seen : seen[i] = base}), LAMBDA index :
             build_name_map_counting(
                 Tail(names),
                 WithEntry(out, Head(names),
                           IF index = 0 THEN base
                           ELSE base \o <<"_">> \o IntToStr(index + 1)),
                 Append(seen, base))))

name_map_by_count(names) ==
    build_name_map_counting(SortedStrs(names), <<>>, <<>>)

\* The loop of build_name_map over the sorted names.
RECURSIVE build_name_map_loop(_, _, _)
build_name_map_loop(names, out, used) ==
    IF names = <<>> THEN out
    ELSE Bind(sanitize_type_identifier(Head(names), FallbackType), LAMBDA base :
         Bind(IF base \in used THEN next_free_candidate(base, 2, used) ELSE base,
              LAMBDA candidate :
             build_name_map_loop(
                 Tail(names),
                 WithEntry(out, Head(names), candidate),
                 used \cup {candidate})))

build_name_map(names) ==
    build_name_map_loop(SortedStrs(names), <<>>, {})

\* name_map.get(name, sanitize_type_identifier(name, fallback="Type"))
NameOf(name_map, name) ==
    IF name \in DOMAIN name_map
    THEN name_map[name]
    ELSE sanitize_type_identifier(name, FallbackType)

\* ------------------------------------------------------------ schema

\* A type expression is the JSON object of the metaModel, as a record with
\* the keys the object has: [kind, name] for base and reference,
\* [kind, element] for array, [kind, key, value] for map, [kind, items] for
\* tuple, or, and; [kind, value] for the literals.
Base(n) == [kind |-> "base", name |-> n]
Ref(n) == [kind |-> "reference", name |-> n]
ArrayOf(t) == [kind |-> "array", element |-> t]
MapOf(k, v) == [kind |-> "map", key |-> k, value |-> v]
TupleOf(ts) == [kind |-> "tuple", items |-> ts]
OrOf(ts) == [kind |-> "or", items |-> ts]
AndOf(ts) == [kind |-> "and", items |-> ts]
StringLiteral(v) == [kind |-> "stringLiteral", value |-> v]
IntegerLiteral(v) == [kind |-> "integerLiteral", value |-> v]
BooleanLiteral(v) == [kind |-> "booleanLiteral", value |-> v]

s_string == <<"s", "t", "r", "i", "n", "g">>
s_integer == <<"i", "n", "t", "e", "g", "e", "r">>
s_uinteger == <<"u", "i", "n", "t", "e", "g", "e", "r">>
s_boolean == <<"b", "o", "o", "l", "e", "a", "n">>
s_null == <<"n", "u", "l", "l">>

\* An absent optional JSON object (params, result): None where a dict is
\* expected.
NoneExpr == [kind |-> "None"]

RECURSIVE_ALIASES ==
    { <<"L", "S", "P", "A", "n", "y">>,
      <<"L", "S", "P", "A", "r", "r", "a", "y">>,
      <<"L", "S", "P", "O", "b", "j", "e", "c", "t">> }

\* A JSON scalar (an enum value, the value of a literal type): text, an
\* integer or a boolean, tagged by its JSON type.
JStr(text) == [str |-> text]
JInt(n) == [int |-> n]
JBool(b) == [bool |-> b]

\* isinstance(value, int) (JSON booleans are left out of the model's values
\* wherever this is asked)
IsInt(v) == "int" \in DOMAIN v

\* str(value): text is kept, an integer is written in decimal.
StrOf(v) ==
    IF "int" \in DOMAIN v
    THEN (IF v.int < 0 THEN <<"-">> \o IntToStr(0 - v.int) ELSE IntToStr(v.int))
    ELSE IF "str" \in DOMAIN v THEN v.str
    ELSE IF v.bool THEN <<"T", "r", "u", "e">> ELSE <<"F", "a", "l", "s", "e">>

\* The item of items with the given name that a dict built by successive
\* assignment keeps: the last one.
LastNamed(items, name) ==
    items[CHOOSE i \in DOMAIN items :
            /\ items[i].name = name
            /\ \A j \in DOMAIN items : items[j].name = name => j <= i]

\* x["name"] for x in [*extends, *mixins] if x.get("kind") == "reference"
RECURSIVE ReferenceNames(_)
ReferenceNames(exprs) ==
    IF exprs = <<>> THEN <<>>
    ELSE (IF Head(exprs).kind = "reference" THEN <<Head(exprs).name>> ELSE <<>>)
         \o ReferenceNames(Tail(exprs))

\* The keys parse_schema subscripts (item["name"], prop["type"], ...): one
\* that is absent raises KeyError.
lacks(item, keys) == \E key \in keys : key \notin DOMAIN item

missing_key(schema) ==
    \/ \E i \in DOMAIN schema.structures :
           \/ lacks(schema.structures[i], {"name"})
           \/ \E j \in DOMAIN schema.structures[i].properties :
                  lacks(schema.structures[i].properties[j], {"name", "type"})
           \/ \E j \in DOMAIN (schema.structures[i].extends \o schema.structures[i].mixins) :
                  LET x == (schema.structures[i].extends \o schema.structures[i].mixins)[j]
                  IN  x.kind = "reference" /\ lacks(x, {"name"})
    \/ \E i \in DOMAIN schema.enumerations : lacks(schema.enumerations[i], {"name"})
    \/ \E i \in DOMAIN schema.typeAliases : lacks(schema.typeAliases[i], {"name", "type"})
    \/ \E i \in DOMAIN schema.requests : lacks(schema.requests[i], {"method"})
    \/ \E i \in DOMAIN schema.notifications : lacks(schema.notifications[i], {"method"})

parse_schema(schema) ==
    [ structures |->
        [n \in {schema.structures[i].name : i \in DOMAIN schema.structures} |->
            LET item == LastNamed(schema.structures, n)
            IN  [ name |-> n,
                  parents |-> ReferenceNames(item.extends \o item.mixins),
                  properties |->
                      [i \in DOMAIN item.properties |->
                          [ name |-> item.properties[i].name,
                            type_expr |-> item.properties[i].type,
                            optional |-> item.properties[i].optional,
                            doc |-> item.properties[i].documentation ]] ]],
      enumerations |->
        [n \in {schema.enumerations[i].name : i \in DOMAIN schema.enumerations} |->
            LET item == LastNamed(schema.enumerations, n)
            IN  [ name |-> n,
                  type_expr |-> item.type,
                  values |->
                      [i \in DOMAIN item.values |->
                          [ name |-> item.values[i].name,
                            value |-> item.values[i].value ]],
                  supports_custom_values |-> item.supportsCustomValues ]],
      aliases |->
        [n \in {schema.typeAliases[i].name : i \in DOMAIN schema.typeAliases} |->
            [ name |-> n, type_expr |-> LastNamed(schema.typeAliases, n).type ]],
      requests |->
        [i \in DOMAIN schema.requests |->
            [ method |-> schema.requests[i].method,
              type_name |-> schema.requests[i].typeName,
              params |-> schema.requests[i].params,
              result |-> schema.requests[i].result ]],
      notifications |->
        [i \in DOMAIN schema.notifications |->
            [ method |-> schema.notifications[i].method,
              type_name |-> schema.notifications[i].typeName,
              params |-> schema.notifications[i].params ]] ]

\* ------------------------------------------------------------ synthesized params

s_Params == <<"P", "a", "r", "a", "m", "s">>
s_Request == <<"R", "e", "q", "u", "e", "s", "t">>
s_Notification == <<"N", "o", "t", "i", "f", "i", "c", "a", "t", "i", "o", "n">>
s_Method == <<"M", "e", "t", "h", "o", "d">>

\* str.endswith
EndsWith(s, suffix) ==
    /\ Len(s) >= Len(suffix)
    /\ SubSeq(s, Len(s) - Len(suffix) + 1, Len(s)) = suffix

\* re.split(r"[^0-9A-Za-z]+", method), empty parts dropped
RECURSIVE SplitNonAlnum(_, _)
SplitNonAlnum(s, part) ==
    IF s = <<>> THEN (IF part = <<>> THEN <<>> ELSE <<part>>)
    ELSE IF ~isalnum(Head(s))
         THEN (IF part = <<>> THEN <<>> ELSE <<part>>) \o SplitNonAlnum(Tail(s), <<>>)
         ELSE SplitNonAlnum(Tail(s), part \o <<Head(s)>>)

method_to_type_name(method, suffix) ==
    LET parts == SplitNonAlnum(method, <<>>)
    IN  (IF parts # <<>> THEN CapitalizeJoin(parts) ELSE s_Method) \o suffix

derive_params_name(type_name, method) ==
    IF type_name # None /\ type_name # <<>> /\ EndsWith(type_name, s_Request)
    THEN SubSeq(type_name, 1, Len(type_name) - Len(s_Request)) \o s_Params
    ELSE IF type_name # None /\ type_name # <<>> /\ EndsWith(type_name, s_Notification)
    THEN SubSeq(type_name, 1, Len(type_name) - Len(s_Notification)) \o s_Params
    ELSE method_to_type_name(method, s_Params)

RECURSIVE missing_params(_)
missing_params(items) ==
    IF items = <<>> THEN <<>>
    ELSE (IF Head(items).params = NoneExpr
          THEN <<[ name |-> derive_params_name(Head(items).type_name, Head(items).method),
                   method |-> Head(items).method ]>>
          ELSE <<>>)
         \o missing_params(Tail(items))

collect_extra_params(requests, notifications) ==
    missing_params(requests) \o missing_params(notifications)

\* definition_names of generate_protocol_header; the order of the keys is
\* immaterial, build_name_map sorts the list.
definition_names(model, extra_params) ==
    SetToSeq(DOMAIN model.structures)
    \o SetToSeq(DOMAIN model.enumerations)
    \o SetToSeq(DOMAIN model.aliases)
    \o [i \in DOMAIN extra_params |-> extra_params[i].name]

\* ------------------------------------------------------------ TypeRenderer

closed_string_enum_names(model) ==
    { n \in DOMAIN model.enumerations :
        /\ model.enumerations[n].type_expr.name = s_string
        /\ ~model.enumerations[n].supports_custom_values }

\* literal_owner_candidates[literal_text]
literal_owner_candidates(model, literal_text) ==
    { n \in closed_string_enum_names(model) :
        \E i \in DOMAIN model.enumerations[n].values :
            StrOf(model.enumerations[n].values[i].value) = literal_text }

\* closed_string_literal_owner.get(literal_text)
closed_string_literal_owner(model, literal_text) ==
    Bind(literal_owner_candidates(model, literal_text), LAMBDA owners :
        IF Cardinality(owners) = 1 THEN CHOOSE n \in owners : TRUE ELSE None)

\* Truthiness of a `str | None` value, as `if owner_enum:` tests it.
Truthy(text) == text # None /\ text # <<>>

\* ", ".join(items), each item and each separator one run of chunks
RECURSIVE JoinComma(_)
JoinComma(items) ==
    IF items = <<>> THEN <<>>
    ELSE IF Len(items) = 1 THEN items[1]
    ELSE items[1] \o <<", ">> \o JoinComma(Tail(items))

\* The first occurrence of every element, in order.
RECURSIVE FirstSeen(_, _)
FirstSeen(items, seen) ==
    IF items = <<>> THEN <<>>
    ELSE IF Head(items) \in seen THEN FirstSeen(Tail(items), seen)
    ELSE <<Head(items)>> \o FirstSeen(Tail(items), seen \cup {Head(items)})

\* The text a render of an unsupported kind stands for: the ValueError
\* render_type raises.
ValueError == <<"raise ValueError">>

IsNullItem(item) ==
    item.kind = "base" /\ item.name = s_null

RECURSIVE SelectNonNull(_)
SelectNonNull(items) ==
    IF items = <<>> THEN <<>>
    ELSE (IF IsNullItem(Head(items)) THEN <<>> ELSE <<Head(items)>>)
         \o SelectNonNull(Tail(items))

\* The last three returns of render_or, given the arms.
or_plain(arms) ==
    IF arms = <<>> THEN s_null
    ELSE IF Len(arms) = 1 THEN arms[1]
    ELSE <<"variant<">> \o JoinComma(arms) \o <<">">>

\* Mutation: null is appended behind the other arms.
or_result_null_last(unique, saw_null) ==
    IF saw_null /\ Len(unique) = 1 THEN <<"nullable<">> \o unique[1] \o <<">">>
    ELSE or_plain(IF saw_null THEN unique \o <<s_null>> ELSE unique)

\* The returns of render_or, given the deduplicated arms.
or_result(unique, saw_null) ==
    IF saw_null /\ Len(unique) = 1 THEN <<"nullable<">> \o unique[1] \o <<">">>
    ELSE or_plain(IF saw_null THEN <<s_null>> \o unique ELSE unique)

\* Mutation: the rendered arms are not deduplicated.
or_shape_no_dedupe(rendered, saw_null) == or_result(rendered, saw_null)

\* The second half of render_or, from the rendered non-null arms on.
or_shape(rendered, saw_null) == or_result(FirstSeen(rendered, {}), saw_null)

\* The three returns of render_type for a reference.
reference_text(cpp_name, is_self, is_closed_string_enum) ==
    IF is_self THEN <<"std::shared_ptr<">> \o cpp_name \o <<">">>
    ELSE IF is_closed_string_enum THEN <<"enum_string<">> \o cpp_name \o <<">">>
    ELSE cpp_name

\* The two returns of render_type for a stringLiteral.
string_literal_text(name_map, owner_enum) ==
    IF Truthy(owner_enum)
    THEN <<"enum_string<">> \o NameOf(name_map, owner_enum) \o <<">">>
    ELSE s_string

\* The returns of render_type for a tuple and for an and.
tuple_text(items) ==
    IF items = <<>> THEN <<"std::tuple<>">>
    ELSE <<"std::tuple<">> \o JoinComma(items) \o <<">">>

and_text(items) ==
    IF Len(items) = 1 THEN items[1]
    ELSE <<"std::tuple<">> \o JoinComma(items) \o <<">">>

RECURSIVE render_type(_, _, _, _)
RECURSIVE render_or(_, _, _, _)

render_type(model, name_map, type_expr, current_struct) ==
    CASE type_expr.kind = "base" -> type_expr.name
      [] type_expr.kind = "reference" ->
            reference_text(NameOf(name_map, type_expr.name),
                           current_struct # None /\ type_expr.name = current_struct,
                           type_expr.name \in closed_string_enum_names(model))
      [] type_expr.kind = "array" ->
            <<"std::vector<">>
            \o render_type(model, name_map, type_expr.element, current_struct)
            \o <<">">>
      [] type_expr.kind = "map" ->
            <<"std::map<">>
            \o render_type(model, name_map, type_expr.key, current_struct)
            \o <<", ">>
            \o render_type(model, name_map, type_expr.value, current_struct)
            \o <<">">>
      [] type_expr.kind = "tuple" ->
            tuple_text([i \in DOMAIN type_expr.items |->
                           render_type(model, name_map, type_expr.items[i], current_struct)])
      [] type_expr.kind = "or" ->
            render_or(model, name_map, type_expr.items, current_struct)
      [] type_expr.kind = "and" ->
            and_text([i \in DOMAIN type_expr.items |->
                         render_type(model, name_map, type_expr.items[i], current_struct)])
      [] type_expr.kind = "literal" -> <<"LspEmptyObject">>
      [] type_expr.kind = "stringLiteral" ->
            string_literal_text(
                name_map, closed_string_literal_owner(model, StrOf(type_expr.value)))
      [] type_expr.kind = "integerLiteral" -> s_integer
      [] type_expr.kind = "booleanLiteral" -> s_boolean
      [] OTHER -> ValueError

render_or(model, name_map, items, current_struct) ==
    Bind(SelectNonNull(items), LAMBDA others :
        or_shape([i \in DOMAIN others |->
                     render_type(model, name_map, others[i], current_struct)],
                 \E i \in DOMAIN items : IsNullItem(items[i])))

\* ------------------------------------------------------------ Generator

struct_names(model) == DOMAIN model.structures
enum_names(model) == DOMAIN model.enumerations
alias_names(model) == DOMAIN model.aliases

\* A Counter: a function from the keys counted so far; any other key counts 0.
CountOf(counter, key) == IF key \in DOMAIN counter THEN counter[key] ELSE 0

Increment(counter, key) == WithEntry(counter, key, CountOf(counter, key) + 1)

\* enum_member_upper_camel of every text, with the fallback Value<index + 1>.
member_base_names(texts) ==
    [j \in DOMAIN texts |->
        enum_member_upper_camel(texts[j], <<"V", "a", "l", "u", "e">> \o IntToStr(j))]

\* The Counter-deduplicated member names, given the base names: the first
\* keeps the base name, a later one gets its 1-based count appended.
dedupe_member_names(bases) ==
    [i \in DOMAIN bases |->
        Bind(Cardinality({j \in 1..(i - 1) : bases[j] = bases[i]}), LAMBDA dedupe_index :
            IF dedupe_index = 0 THEN bases[i]
            ELSE bases[i] \o IntToStr(dedupe_index + 1))]

\* value_to_member of Generator.__init__ for one closed string enum, read
\* at literal_text: the member of the last value with that text.
value_to_member(enum_def, literal_text) ==
    Bind({i \in DOMAIN enum_def.values : StrOf(enum_def.values[i].value) = literal_text},
         LAMBDA hits :
        IF hits = {} THEN None
        ELSE dedupe_member_names(
                 member_base_names([j \in DOMAIN enum_def.values |->
                                       StrOf(enum_def.values[j].value)])
             )[CHOOSE i \in hits : \A j \in hits : j <= i])

\* closed_string_enum_literal_members.get(enum_name, {}).get(literal_text)
closed_string_enum_literal_member(model, enum_name, literal_text) ==
    IF enum_name \notin closed_string_enum_names(model) THEN None
    ELSE value_to_member(model.enumerations[enum_name], literal_text)

\* The node a reference adds, if any.
reference_nodes(model, ref, current_struct) ==
    IF ref = current_struct THEN {}
    ELSE IF ref \in struct_names(model) THEN {<<"S", ref>>}
    ELSE IF ref \in enum_names(model) THEN {<<"E", ref>>}
    ELSE IF ref \in alias_names(model) /\ ref \notin RECURSIVE_ALIASES THEN {<<"A", ref>>}
    ELSE {}

\* The node a stringLiteral adds, if any.
literal_nodes(model, owner_enum) ==
    IF owner_enum \in enum_names(model) THEN {<<"E", owner_enum>>} ELSE {}

\* The set _walk_type_refs adds to `out`.
RECURSIVE walk_type_refs(_, _, _)
walk_type_refs(model, type_expr, current_struct) ==
    CASE type_expr.kind = "reference" ->
            reference_nodes(model, type_expr.name, current_struct)
      [] type_expr.kind = "stringLiteral" ->
            literal_nodes(model, closed_string_literal_owner(model, StrOf(type_expr.value)))
      [] type_expr.kind = "array" ->
            walk_type_refs(model, type_expr.element, current_struct)
      [] type_expr.kind = "map" ->
            walk_type_refs(model, type_expr.key, current_struct)
            \cup walk_type_refs(model, type_expr.value, current_struct)
      [] type_expr.kind \in {"or", "and", "tuple"} ->
            UNION {walk_type_refs(model, type_expr.items[i], current_struct) :
                     i \in DOMAIN type_expr.items}
      [] type_expr.kind = "literal" ->
            UNION {walk_type_refs(model, type_expr.value.properties[i].type, current_struct) :
                     i \in DOMAIN type_expr.value.properties}
      [] OTHER -> {}

\* The FlattenedProperty list of a struct's own properties.
own_flattened(struct_def) ==
    [i \in DOMAIN struct_def.properties |->
        [prop |-> struct_def.properties[i], declared_in |-> struct_def.name]]

\* The end of collect_flattened_properties: the list is stored and returned.
store_flattened(cache, struct_name, out) ==
    [out |-> out, cache |-> WithEntry(cache, struct_name, out)]

\* collect_flattened_properties, with the cache it reads and fills passed in
\* and handed back: [out |-> the list returned, cache |-> the cache after].
RECURSIVE collect_flattened_properties(_, _, _, _)
collect_flattened_properties(model, cache, struct_name, stack) ==
    IF struct_name \in DOMAIN cache
    THEN [out |-> cache[struct_name], cache |-> cache]
    ELSE IF struct_name \in stack
    THEN [out |-> <<>>, cache |-> cache]
    ELSE Bind(model.structures[struct_name], LAMBDA struct_def :
         Bind(IF /\ Len(struct_def.parents) = 1
                 /\ struct_def.parents[1] \in struct_names(model)
              THEN collect_flattened_properties(
                       model, cache, struct_def.parents[1], stack \cup {struct_name})
              ELSE [out |-> <<>>, cache |-> cache],
              LAMBDA inherited :
             store_flattened(inherited.cache, struct_name,
                             inherited.out \o own_flattened(struct_def))))

\* Mutation: the parents of a struct are no dependencies of it.
parent_dependencies_none(model, struct_def) == {}

\* The ("S", parent) dependencies of a multi-parent struct.
parent_dependencies(model, struct_def) ==
    IF Len(struct_def.parents) > 1
    THEN {<<"S", struct_def.parents[i]>> :
            i \in {j \in DOMAIN struct_def.parents :
                     struct_def.parents[j] \in struct_names(model)}}
    ELSE {}

\* struct_dependencies on a struct not yet in struct_dep_cache:
\* [deps |-> the set returned, cache |-> the flattened-property cache after].
struct_dependencies(model, cache, struct_name) ==
    Bind(collect_flattened_properties(model, cache, struct_name, {}), LAMBDA flat :
        [ deps |->
            (parent_dependencies(model, model.structures[struct_name])
             \cup UNION {walk_type_refs(model, flat.out[i].prop.type_expr,
                                        flat.out[i].declared_in) :
                           i \in DOMAIN flat.out})
            \ {<<"S", struct_name>>},
          cache |-> flat.cache ])

\* The nodes of build_node_dependencies.
graph_nodes(model) ==
    {<<"S", n>> : n \in struct_names(model)}
    \cup {<<"E", n>> : n \in enum_names(model)}
    \cup {<<"A", n>> : n \in alias_names(model) \ RECURSIVE_ALIASES}

alias_dependencies(model, alias_name) ==
    walk_type_refs(model, model.aliases[alias_name].type_expr, alias_name)
    \ {<<"A", alias_name>>}

\* The sort key of a node (kind, name): the tuple's comparison is the
\* comparison of the kind letter followed by the name.
NodeKey(node) == <<Code(node[1])>> \o StrKey(node[2])

\* One node with its sort key.
KeyedNode(node) == [key |-> NodeKey(node), val |-> node]

\* sorted(nodes), nodes a set or a list without repetition
SortedNodes(nodes) ==
    Bind(SetToSeq(nodes), LAMBDA seq :
        Vals(SortByKey([i \in DOMAIN seq |-> KeyedNode(seq[i])])))

\* ------------------------------------------------------------ members

is_optional_bool(prop) ==
    /\ prop.optional
    /\ prop.type_expr.kind = "base"
    /\ prop.type_expr.name = s_boolean

\* A property's documentation is None or one of the sample texts below;
\* SUSPICIOUS_BOOL_PATTERNS match the first two and not the third.
DocDefaultsToTrue == <<"Defaults to true.">>
DocTrueIfOmitted == <<"If omitted, the value is true">>
DocPlain == <<"Whether the client supports it. The default is false.">>

bool_default_needs_warning(prop) ==
    prop.doc \in {DocDefaultsToTrue, DocTrueIfOmitted}

property_member_name(schema_property_name) ==
    sanitize_identifier(camel_to_snake(schema_property_name), FallbackField)

\* The branches of is_type_subtype behind `child == parent`, by the kinds.
RECURSIVE is_type_subtype(_, _)
subtype_by_kind(child, parent, child_kind, parent_kind) ==
    CASE parent_kind = "or" ->
            \E i \in DOMAIN parent.items : is_type_subtype(child, parent.items[i])
      [] parent_kind # "or" /\ child_kind = "or" ->
            /\ child.items # <<>>
            /\ \A i \in DOMAIN child.items : is_type_subtype(child.items[i], parent)
      [] parent_kind = "base" /\ child_kind # "or" ->
            IF child_kind = "base" THEN child.name = parent.name
            ELSE IF parent.name = s_string /\ child_kind = "stringLiteral" THEN TRUE
            ELSE IF parent.name = s_integer /\ child_kind = "integerLiteral" THEN TRUE
            ELSE IF parent.name = s_uinteger /\ child_kind = "integerLiteral"
            THEN IsInt(child.value) /\ child.value.int >= 0
            ELSE IF parent.name = s_boolean /\ child_kind = "booleanLiteral" THEN TRUE
            ELSE FALSE
      [] parent_kind \in {"stringLiteral", "integerLiteral", "booleanLiteral"}
         /\ child_kind # "or" ->
            child_kind = parent_kind /\ child.value = parent.value
      [] parent_kind = "reference" /\ child_kind # "or" ->
            child_kind = "reference" /\ child.name = parent.name
      [] parent_kind = "array" /\ child_kind = "array" ->
            is_type_subtype(child.element, parent.element)
      [] parent_kind = "map" /\ child_kind = "map" ->
            /\ is_type_subtype(child.key, parent.key)
            /\ is_type_subtype(child.value, parent.value)
      [] parent_kind = "tuple" /\ child_kind = "tuple" ->
            /\ Len(parent.items) = Len(child.items)
            /\ \A i \in DOMAIN child.items :
                   is_type_subtype(child.items[i], parent.items[i])
      [] OTHER -> FALSE

is_type_subtype(child, parent) ==
    IF child = parent THEN TRUE
    ELSE subtype_by_kind(child, parent, child.kind, parent.kind)

\* Mutation: a redeclaration under the same schema name always overrides.
is_safe_override_by_name(parent_prop, child_prop) ==
    IF parent_prop.name # child_prop.name
    THEN [safe |-> FALSE, reason |-> "member-name collision"]
    ELSE [safe |-> TRUE, reason |-> "safe narrowing"]

\* [safe, reason]
is_safe_override(parent_prop, child_prop) ==
    IF parent_prop.name # child_prop.name
    THEN [safe |-> FALSE, reason |-> "member-name collision"]
    ELSE IF child_prop.optional /\ ~parent_prop.optional
    THEN [safe |-> FALSE,
          reason |-> "child field is optional while parent field is required"]
    ELSE IF ~is_type_subtype(child_prop.type_expr, parent_prop.type_expr)
    THEN [safe |-> FALSE,
          reason |-> "child field type is not a safe subtype of parent field type"]
    ELSE [safe |-> TRUE, reason |-> "safe narrowing"]

\* str.startswith("variant<") and str.endswith(">") of a rendered type
IsVariantText(rendered) ==
    /\ rendered # <<>>
    /\ Head(rendered) = "variant<"
    /\ rendered[Len(rendered)] = ">"

\* Mutation: an optional variant is wrapped like any other optional type.
member_type_wrapped(prop, rendered) ==
    IF is_optional_bool(prop) THEN <<"optional_bool">>
    ELSE IF prop.optional THEN <<"optional<">> \o rendered \o <<">">>
    ELSE rendered

\* The type make_member declares, given the rendered type of the property.
member_type(prop, rendered) ==
    IF is_optional_bool(prop) THEN <<"optional_bool">>
    ELSE IF prop.optional
    THEN (IF IsVariantText(rendered)
          THEN <<"optional_variant<">> \o Tail(rendered)
          ELSE <<"optional<">> \o rendered \o <<">">>)
    ELSE rendered

\* The default of a required stringLiteral property, given the member its
\* owner enum has for the literal.
literal_default(name_map, owner_enum, member_name) ==
    IF Truthy(member_name)
    THEN NameOf(name_map, owner_enum) \o <<"::">> \o member_name
    ELSE None

owner_default(model, name_map, literal_text, owner_enum) ==
    IF Truthy(owner_enum)
    THEN literal_default(
             name_map, owner_enum,
             closed_string_enum_literal_member(model, owner_enum, literal_text))
    ELSE None

\* Mutation: an optional boolean whose documentation promises a true
\* default is initialised to true.
member_default_by_doc(model, name_map, prop) ==
    IF is_optional_bool(prop) /\ bool_default_needs_warning(prop) THEN <<"true">>
    ELSE IF prop.optional THEN <<"{}">>
    ELSE None

\* The default value make_member gives.
member_default(model, name_map, prop) ==
    IF prop.optional THEN <<"{}">>
    ELSE IF prop.type_expr.kind = "stringLiteral"
    THEN Bind(StrOf(prop.type_expr.value), LAMBDA literal_text :
             owner_default(model, name_map, literal_text,
                           closed_string_literal_owner(model, literal_text)))
    ELSE None

\* The MemberDef (its comments reduced to the inherited-from note) and the
\* diagnostics make_member appends; named is property_member_name(prop.name).
member_made(owner_struct, prop, inherited_from, cxx_type, default_value, named) ==
    [ member |->
        [ cxx_type |-> cxx_type,
          base_name |-> named.text,
          inherited_from |-> inherited_from,
          default_value |-> default_value ],
      bool_default_warnings |->
        IF is_optional_bool(prop) /\ bool_default_needs_warning(prop)
        THEN <<[struct |-> owner_struct, prop |-> prop.name]>>
        ELSE <<>>,
      keyword_hits |->
        IF named.keyword_hit
        THEN <<[struct |-> owner_struct, prop |-> prop.name, renamed |-> named.text]>>
        ELSE <<>> ]

make_member(model, name_map, owner_struct, flat_prop, inherited_from) ==
    member_made(
        owner_struct, flat_prop.prop, inherited_from,
        member_type(flat_prop.prop,
                    render_type(model, name_map, flat_prop.prop.type_expr,
                                flat_prop.declared_in)),
        member_default(model, name_map, flat_prop.prop),
        property_member_name(flat_prop.prop.name))

\* The MemberDef and diagnostics of make_flatten_member, given the field name.
flatten_made(owner_struct, parent_name, parent_cpp, named) ==
    [ member |->
        [ cxx_type |-> <<"flatten<">> \o parent_cpp \o <<">">>,
          base_name |-> named.text,
          inherited_from |-> None,
          default_value |-> None ],
      bool_default_warnings |-> <<>>,
      keyword_hits |->
        IF named.keyword_hit
        THEN <<[struct |-> owner_struct, prop |-> parent_name, renamed |-> named.text]>>
        ELSE <<>> ]

make_flatten_member(name_map, owner_struct, parent_name) ==
    Bind(NameOf(name_map, parent_name), LAMBDA parent_cpp :
        flatten_made(owner_struct, parent_name, parent_cpp,
                     sanitize_identifier(camel_to_snake(parent_cpp), FallbackBase)))

\* local_props_by_member_name.get(member_name): the last local property
\* with that member name, or NoProp.
NoProp == [name |-> None]

LastOf(props, hits) ==
    IF hits = {} THEN NoProp
    ELSE props[CHOOSE i \in hits : \A j \in hits : j <= i]

local_prop_by_member_name(struct_def, member_name) ==
    LastOf(struct_def.properties,
           {i \in DOMAIN struct_def.properties :
              property_member_name(struct_def.properties[i].name).text = member_name})

\* An accumulator of collect_struct_members: the members so far and the
\* diagnostics appended so far.
NoMembers ==
    [ members |-> <<>>, bool_default_warnings |-> <<>>, keyword_hits |-> <<>>,
      unsafe_override_warnings |-> <<>> ]

AddMember(acc, made) ==
    [ acc EXCEPT !.members = Append(@, made.member),
                 !.bool_default_warnings = @ \o made.bool_default_warnings,
                 !.keyword_hits = @ \o made.keyword_hits ]

\* The entry of unsafe_override_warnings for one conflict.
override_warning(struct_name, inherited_name, flat, local_prop, reason) ==
    [ struct |-> struct_name,
      member |-> inherited_name,
      inherited |-> flat.prop.name,
      declared_in |-> flat.declared_in,
      local |-> local_prop.name,
      reason |-> reason ]

\* One round of the loop over the parent's flattened properties, given the
\* local property of the same member name (NoProp if there is none) and the
\* verdict of is_safe_override on it.
inherit_one(model, name_map, struct_name, flat, acc, inherited_name, local_prop, verdict) ==
    IF local_prop # NoProp /\ verdict.safe THEN acc
    ELSE AddMember(
             IF local_prop # NoProp
             THEN [acc EXCEPT !.unsafe_override_warnings =
                      Append(@, override_warning(struct_name, inherited_name, flat,
                                                 local_prop, verdict.reason))]
             ELSE acc,
             make_member(model, name_map, struct_name, flat,
                         model.structures[struct_name].parents[1]))

inherit_named(model, name_map, struct_name, flat, acc, inherited_name, local_prop) ==
    inherit_one(model, name_map, struct_name, flat, acc, inherited_name, local_prop,
                IF local_prop = NoProp THEN [safe |-> FALSE, reason |-> None]
                ELSE is_safe_override(flat.prop, local_prop))

\* The loop over the parent's flattened properties (single parent).
RECURSIVE inherited_members(_, _, _, _, _)
inherited_members(model, name_map, struct_name, flats, acc) ==
    IF flats = <<>> THEN acc
    ELSE inherited_members(
             model, name_map, struct_name, Tail(flats),
             Bind(property_member_name(Head(flats).prop.name).text, LAMBDA inherited_name :
                 inherit_named(model, name_map, struct_name, Head(flats), acc, inherited_name,
                               local_prop_by_member_name(model.structures[struct_name],
                                                         inherited_name))))

\* The loop over the parents of a multi-parent struct.
RECURSIVE flatten_members(_, _, _, _, _)
flatten_members(model, name_map, struct_name, parents, acc) ==
    IF parents = <<>> THEN acc
    ELSE flatten_members(
             model, name_map, struct_name, Tail(parents),
             IF Head(parents) \notin struct_names(model) THEN acc
             ELSE AddMember(acc, make_flatten_member(name_map, struct_name, Head(parents))))

\* The loop over the struct's own properties.
RECURSIVE local_members(_, _, _, _, _)
local_members(model, name_map, struct_name, props, acc) ==
    IF props = <<>> THEN acc
    ELSE local_members(
             model, name_map, struct_name, Tail(props),
             AddMember(acc, make_member(model, name_map, struct_name,
                                        [prop |-> Head(props), declared_in |-> struct_name],
                                        None)))

\* The members a struct has before its own properties.
members_before_locals(model, name_map, cache, struct_name, parents) ==
    IF Len(parents) = 1 /\ parents[1] \in struct_names(model)
    THEN inherited_members(
             model, name_map, struct_name,
             collect_flattened_properties(model, cache, parents[1], {}).out,
             NoMembers)
    ELSE IF Len(parents) > 1
    THEN flatten_members(model, name_map, struct_name, parents, NoMembers)
    ELSE NoMembers

\* Mutation: the struct's own properties are collected first.
collect_struct_members_locals_first(model, name_map, cache, struct_name) ==
    Bind(local_members(model, name_map, struct_name,
                       model.structures[struct_name].properties, NoMembers),
         LAMBDA locals :
        [ members_before_locals(model, name_map, cache, struct_name,
                                model.structures[struct_name].parents)
          EXCEPT !.members = locals.members \o @,
                 !.bool_default_warnings = locals.bool_default_warnings \o @,
                 !.keyword_hits = locals.keyword_hits \o @ ])

collect_struct_members(model, name_map, cache, struct_name) ==
    local_members(
        model, name_map, struct_name, model.structures[struct_name].properties,
        members_before_locals(model, name_map, cache, struct_name,
                              model.structures[struct_name].parents))

\* The returns of unique_member_name, given the count of base_name so far.
member_name_at(struct_name, base_name, index, renamed) ==
    [ name |-> IF index = 0 THEN base_name ELSE renamed,
      warnings |->
        IF index = 0 THEN <<>>
        ELSE <<[struct |-> struct_name, base_name |-> base_name, renamed |-> renamed]>> ]

\* unique_member_name: [name, warnings appended]; the counter after is
\* Increment(used_names, base_name).
unique_member_name(struct_name, base_name, used_names) ==
    Bind(CountOf(used_names, base_name), LAMBDA index :
        member_name_at(struct_name, base_name, index,
                       base_name \o <<"_">> \o IntToStr(index + 1)))

\* One declaration of emit_struct.
declaration(member, member_name) ==
    [ cxx_type |-> member.cxx_type,
      name |-> member_name,
      base_name |-> member.base_name,
      inherited_from |-> member.inherited_from,
      default_value |-> member.default_value ]

declare_one(acc, member, unique) ==
    [ decls |-> Append(acc.decls, declaration(member, unique.name)),
      warnings |-> acc.warnings \o unique.warnings ]

\* The member loop of emit_struct: the declarations and the collision
\* warnings.
RECURSIVE declare_members(_, _, _, _)
declare_members(struct_name, members, used_names, acc) ==
    IF members = <<>> THEN acc
    ELSE declare_members(
             struct_name, Tail(members), Increment(used_names, Head(members).base_name),
             declare_one(acc, Head(members),
                         unique_member_name(struct_name, Head(members).base_name, used_names)))

\* The block of emit_struct (the struct's C++ name and its member
\* declarations, doc comments left out) and the diagnostics appended.
struct_emitted(struct_name, cpp_name, collected, declared) ==
    [ block |->
        [ kind |-> "S",
          schema_name |-> struct_name,
          name |-> cpp_name,
          members |-> declared.decls ],
      keyword_hits |-> collected.keyword_hits,
      bool_default_warnings |-> collected.bool_default_warnings,
      unsafe_override_warnings |-> collected.unsafe_override_warnings,
      member_collision_warnings |-> declared.warnings ]

emit_struct(model, name_map, cache, struct_name) ==
    Bind(collect_struct_members(model, name_map, cache, struct_name), LAMBDA collected :
        struct_emitted(struct_name, name_map[struct_name], collected,
                       declare_members(struct_name, collected.members, <<>>,
                                       [decls |-> <<>>, warnings |-> <<>>])))

\* ------------------------------------------------------------ enums, aliases

\* TLC's integers are 32-bit: the values of the model stay below 2^31, where
\* the code's third bounds (0xFFFFFFFF, and -(1 << 31) .. (1 << 31) - 1) hold.
smallest_unsigned_type(max_value) ==
    IF max_value <= 255 THEN <<"std::uint8_t">>
    ELSE IF max_value <= 65535 THEN <<"std::uint16_t">>
    ELSE IF max_value <= 2147483647 THEN <<"std::uint32_t">>
    ELSE <<"std::uint64_t">>

smallest_signed_type(min_value, max_value) ==
    IF min_value >= -128 /\ max_value <= 127 THEN <<"std::int8_t">>
    ELSE IF min_value >= -32768 /\ max_value <= 32767 THEN <<"std::int16_t">>
    ELSE IF min_value >= -2147483647 - 1 /\ max_value <= 2147483647 THEN <<"std::int32_t">>
    ELSE <<"std::int64_t">>

\* min(values) and max(values) of a non-empty set of integers
Min(ints) == CHOOSE v \in ints : \A w \in ints : v <= w
Max(ints) == CHOOSE v \in ints : \A w \in ints : v >= w

\* The underlying type of an integer enum, given the integer values.
integer_underlying(enum_def, base_name, ints) ==
    IF enum_def.supports_custom_values \/ ints = {} THEN base_name
    ELSE IF base_name = s_integer THEN smallest_signed_type(Min(ints), Max(ints))
    ELSE smallest_unsigned_type(Max(ints))

\* The members of an `enum class`, named after texts.
class_members(values, names) ==
    [i \in DOMAIN values |-> [name |-> names[i], value |-> values[i].value]]

\* The members of an open string enum.
constant_members(values) ==
    [i \in DOMAIN values |->
        [ name |-> sanitize_identifier(
                       camel_to_snake(values[i].name),
                       <<"v", "a", "l", "u", "e", "_">> \o IntToStr(i - 1)).text,
          value |-> values[i].value ]]

enum_block(enum_name, cpp_name, form, underlying, members) ==
    [ kind |-> "E", schema_name |-> enum_name, name |-> cpp_name,
      form |-> form, underlying |-> underlying, members |-> members ]

\* The branches of emit_enum, by the base name.
enum_by_base(enum_name, cpp_name, enum_def, base_name, values) ==
    IF base_name \in {s_integer, s_uinteger}
    THEN enum_block(
             enum_name, cpp_name, "enum class",
             integer_underlying(
                 enum_def, base_name,
                 {values[i].value.int : i \in {j \in DOMAIN values : IsInt(values[j].value)}}),
             class_members(
                 values,
                 dedupe_member_names(
                     member_base_names([j \in DOMAIN values |-> values[j].name]))))
    ELSE IF base_name = s_string /\ enum_def.supports_custom_values
    THEN enum_block(enum_name, cpp_name, "struct", <<"std::string">>,
                    constant_members(values))
    ELSE IF base_name = s_string
    THEN enum_block(
             enum_name, cpp_name, "enum class",
             smallest_unsigned_type(IF Len(values) - 1 > 0 THEN Len(values) - 1 ELSE 0),
             class_members(
                 values,
                 dedupe_member_names(
                     member_base_names([j \in DOMAIN values |-> StrOf(values[j].value)]))))
    ELSE enum_block(enum_name, cpp_name, "unsupported", base_name, <<>>)

\* emit_enum: the block (doc comments left out).
emit_enum(model, name_map, enum_name) ==
    enum_by_base(enum_name, name_map[enum_name], model.enumerations[enum_name],
                 model.enumerations[enum_name].type_expr.name,
                 model.enumerations[enum_name].values)

\* emit_alias: the block `using name = type;`
emit_alias(model, name_map, alias_name) ==
    [ kind |-> "A",
      schema_name |-> alias_name,
      name |-> name_map[alias_name],
      type |-> render_type(model, name_map, model.aliases[alias_name].type_expr, None) ]

\* ------------------------------------------------------------ extras, traits

\* sorted(items, key=lambda item: item.method)
sorted_by_method(items) ==
    Vals(SortByKey([i \in DOMAIN items |-> [key |-> StrKey(items[i].method), val |-> items[i]]]))

\* The blocks of emit_extra_param_structs, given the sorted entries.
extra_blocks(sorted, name_map) ==
    [i \in DOMAIN sorted |->
        [ kind |-> "X",
          schema_name |-> sorted[i].name,
          name |-> name_map[sorted[i].name],
          members |-> <<>> ]]

\* Mutation: the entries are emitted in the order of their mapped names.
emit_extra_param_structs_by_name(extra_params, name_map) ==
    extra_blocks(
        Vals(SortByKey([i \in DOMAIN extra_params |->
                           [ key |-> StrKey(name_map[extra_params[i].name]),
                             val |-> extra_params[i] ]])),
        name_map)

\* emit_extra_param_structs: one block `struct name { };` per entry
emit_extra_param_structs(extra_params, name_map) ==
    extra_blocks(sorted_by_method(extra_params), name_map)

\* extra_params_by_method.get(method): the last entry with that method
NoExtra == [name |-> None, method |-> None]

LastExtra(extra_params, hits) ==
    IF hits = {} THEN NoExtra
    ELSE extra_params[CHOOSE i \in hits : \A j \in hits : j <= i]

extra_params_by_method(extra_params, method) ==
    LastExtra(extra_params, {i \in DOMAIN extra_params : extra_params[i].method = method})

extra_name(name_map, extra) ==
    IF extra = NoExtra THEN <<"LSPEmpty">> ELSE name_map[extra.name]

render_method_params(model, name_map, extra_params, method, params) ==
    IF params = NoneExpr
    THEN extra_name(name_map, extra_params_by_method(extra_params, method))
    ELSE render_type(model, name_map, params, None)

\* json.dumps of a method string (no character of the model needs escaping)
Quoted(text) == <<"\"">> \o text \o <<"\"">>

\* request_result of emit_method_traits
request_result(model, name_map, req) ==
    IF req.result # NoneExpr
    THEN render_type(model, name_map, req.result, None)
    ELSE s_null

\* One entry of build_trait_entries, params first, the method last.
trait_entry(model, name_map, extra_params, item, result) ==
    <<render_method_params(model, name_map, extra_params, item.method, item.params)>>
    \o result \o <<Quoted(item.method)>>

\* build_trait_entries over the sorted items; with_result tells the requests
\* from the notifications.
trait_entries(model, name_map, extra_params, sorted, with_result) ==
    [i \in DOMAIN sorted |->
        trait_entry(model, name_map, extra_params, sorted[i],
                    IF with_result THEN <<request_result(model, name_map, sorted[i])>>
                    ELSE <<>>)]

build_trait_entries(model, name_map, extra_params, items, with_result) ==
    trait_entries(model, name_map, extra_params, sorted_by_method(items), with_result)

\* ------------------------------------------------------------ topological_order

\* The state of topological_order before its loop, given the indegrees.
kahn_start(node_set, deps, indegree) ==
    [ indegree |-> indegree,
      reverse |-> [n \in node_set |-> {m \in node_set : n \in deps[m] \cap node_set}],
      queue |-> SortedNodes({n \in node_set : indegree[n] = 0}),
      ordered |-> <<>> ]

\* Mutation: no dependency is counted, every node starts in the queue.
kahn_setup_uncounted(nodes, deps) ==
    kahn_start(Range(nodes), deps, [n \in Range(nodes) |-> 0])

\* The setup of topological_order: indegree, reverse and the initial queue.
kahn_setup(nodes, deps) ==
    kahn_start(Range(nodes), deps,
               [n \in Range(nodes) |-> Cardinality(deps[n] \cap Range(nodes))])

\* The state after one iteration, given the indegrees after the decrements.
kahn_release(k, node, indegree) ==
    [ indegree |-> indegree,
      reverse |-> k.reverse,
      queue |-> Tail(k.queue)
                \o SelectSeq(SortedNodes(k.reverse[node]), LAMBDA n : indegree[n] = 0),
      ordered |-> Append(k.ordered, node) ]

\* Mutation: an iteration moves the head of the queue to its end.
kahn_pop_requeued(k) == [k EXCEPT !.queue = Tail(@) \o <<Head(@)>>]

\* One iteration of the while loop: pop the head, release its successors.
kahn_pop(k) ==
    kahn_release(k, Head(k.queue),
                 [n \in DOMAIN k.indegree |->
                     IF n \in k.reverse[Head(k.queue)] THEN k.indegree[n] - 1
                     ELSE k.indegree[n]])

\* Mutation: the nodes Kahn's algorithm left over are not appended.
kahn_finish_unappended(nodes, ordered) == ordered

\* What follows the loop: the nodes Kahn's algorithm left over, appended in
\* sorted order.
kahn_finish(nodes, ordered) ==
    IF Len(ordered) # Len(nodes)
    THEN ordered \o SortedNodes(Range(nodes) \ Range(ordered))
    ELSE ordered

\* The while loop of topological_order, run until the queue is empty.
RECURSIVE kahn_loop(_)
kahn_loop(k) == IF k.queue = <<>> THEN k ELSE kahn_loop(kahn_pop(k))

topological_order(nodes, deps) ==
    kahn_finish(nodes, kahn_loop(kahn_setup(nodes, deps)).ordered)

\* ------------------------------------------------------------ build_node_dependencies

\* The two caches of a fresh Generator.
NoCaches == [flattened |-> <<>>, struct_dep |-> <<>>]

\* One iteration of `for struct_name in self.struct_names`, given what
\* struct_dependencies found: both caches are filled.
visited(caches, struct_name, found) ==
    [ flattened |-> found.cache,
      struct_dep |-> WithEntry(caches.struct_dep, struct_name, found.deps) ]

visit_struct(model, caches, struct_name) ==
    visited(caches, struct_name,
            struct_dependencies(model, caches.flattened, struct_name))

\* The struct loop of build_node_dependencies, the set yielding its names
\* in the given order.
RECURSIVE visit_structs(_, _, _)
visit_structs(model, caches, order) ==
    IF order = <<>> THEN caches
    ELSE visit_structs(model, visit_struct(model, caches, Head(order)), Tail(order))

\* The dependencies of one node, before the filter to node_set.
node_dependencies(model, struct_dep, n) ==
    CASE n[1] = "S" -> struct_dep[n[2]]
      [] n[1] = "A" -> alias_dependencies(model, n[2])
      [] OTHER -> {}

\* The dependency map build_node_dependencies returns.
filtered_dependencies(model, struct_dep, node_set) ==
    [n \in node_set |-> node_dependencies(model, struct_dep, n) \cap node_set]

\* ------------------------------------------------------------ generate_protocol_header

\* emitters[kind](name): the block and the diagnostics it appends.
NoDiagnostics ==
    [ keyword_hits |-> <<>>, bool_default_warnings |-> <<>>,
      unsafe_override_warnings |-> <<>>, member_collision_warnings |-> <<>> ]

Undiagnosed(block) ==
    [ block |-> block,
      keyword_hits |-> <<>>, bool_default_warnings |-> <<>>,
      unsafe_override_warnings |-> <<>>, member_collision_warnings |-> <<>> ]

emit_node(model, name_map, cache, node) ==
    CASE node[1] = "S" -> emit_struct(model, name_map, cache, node[2])
      [] node[1] = "E" -> Undiagnosed(emit_enum(model, name_map, node[2]))
      [] node[1] = "A" -> Undiagnosed(emit_alias(model, name_map, node[2]))

\* The diagnostics after one more block.
diagnosed(diagnostics, emitted) ==
    [ keyword_hits |-> diagnostics.keyword_hits \o emitted.keyword_hits,
      bool_default_warnings |->
          diagnostics.bool_default_warnings \o emitted.bool_default_warnings,
      unsafe_override_warnings |->
          diagnostics.unsafe_override_warnings \o emitted.unsafe_override_warnings,
      member_collision_warnings |->
          diagnostics.member_collision_warnings \o emitted.member_collision_warnings ]

\* body_blocks = [emitters[kind](name) for kind, name in node_order]
emit_nodes(model, name_map, cache, node_order) ==
    [i \in DOMAIN node_order |-> emit_node(model, name_map, cache, node_order[i]).block]

\* The trait entries of emit_method_traits.
method_traits(model, name_map, extra_params) ==
    [ requests |->
          build_trait_entries(model, name_map, extra_params, model.requests, TRUE),
      notifications |->
          build_trait_entries(model, name_map, extra_params, model.notifications, FALSE) ]

\* The rendered text holds the ValueError: render_type raised on the way.
text_raises(text) == \E i \in DOMAIN text : text[i] = ValueError[1]

\* emitters[kind](name) raised: a member type or the alias type did.
block_raises(block) ==
    CASE block.kind = "S" ->
            \E i \in DOMAIN block.members : text_raises(block.members[i].cxx_type)
      [] block.kind = "A" -> text_raises(block.type)
      [] OTHER -> FALSE

\* emit_method_traits raised: the params or the result of an entry did.
traits_raise(entries) ==
    \/ \E i \in DOMAIN entries.requests :
           \E j \in DOMAIN entries.requests[i] : text_raises(entries.requests[i][j])
    \/ \E i \in DOMAIN entries.notifications :
           \E j \in DOMAIN entries.notifications[i] :
               text_raises(entries.notifications[i][j])

\* What generate_protocol_header writes, from the Generator's caches on.
header_emitted(model, extra_params, name_map, caches, node_set) ==
    Bind(topological_order(
             SortedNodes(node_set),
             filtered_dependencies(model, caches.struct_dep, node_set)),
         LAMBDA order :
        [ model |-> model,
          name_map |-> name_map,
          node_order |-> order,
          body_blocks |->
              emit_nodes(model, name_map, caches.flattened, order)
              \o emit_extra_param_structs(extra_params, name_map),
          traits |-> method_traits(model, name_map, extra_params) ])

header_named(model, extra_params, name_map, visit_order) ==
    header_emitted(model, extra_params, name_map,
                   visit_structs(model, NoCaches, visit_order), graph_nodes(model))

header_parsed(model, extra_params, visit_order) ==
    header_named(model, extra_params,
                 build_name_map(definition_names(model, extra_params)), visit_order)

\* generate_protocol_header as a function of the schema and of the order in
\* which the set struct_names yields its elements.
generate_protocol_header(schema, visit_order) ==
    Bind(parse_schema(schema), LAMBDA parsed :
        header_parsed(parsed,
                      collect_extra_params(parsed.requests, parsed.notifications),
                      visit_order))

\* ------------------------------------------------------------ the generator run

VARIABLES
    input,                      \* the decoded schema JSON
    pc,                         \* where generate_protocol_header stands
    model,                      \* SchemaModel
    extra_params,               \* list of ExtraParamDef
    name_map,                   \* schema name -> C++ identifier
    flattened_property_cache,   \* Generator.flattened_property_cache
    struct_dep_cache,           \* Generator.struct_dep_cache
    deps,                       \* node -> set of nodes (build_node_dependencies)
    nodes,                      \* sorted node list
    kahn,                       \* indegree, reverse, queue, ordered of topological_order
    node_order,                 \* the emission order
    body_blocks,                \* the blocks emitted so far
    diagnostics,                \* the four warning lists of the Generator
    traits                      \* the entries of the two X-macros

vars ==
    << input, pc, model, extra_params, name_map, flattened_property_cache,
       struct_dep_cache, deps, nodes, kahn, node_order, body_blocks, diagnostics, traits >>

NoModel ==
    [ structures |-> <<>>, enumerations |-> <<>>, aliases |-> <<>>,
      requests |-> <<>>, notifications |-> <<>> ]

NoKahn == [indegree |-> <<>>, reverse |-> <<>>, queue |-> <<>>, ordered |-> <<>>]

\* The state generate_protocol_header starts from, given the schema.
Start(schema) ==
    /\ input = schema
    /\ pc = "parse"
    /\ model = NoModel
    /\ extra_params = <<>>
    /\ name_map = <<>>
    /\ flattened_property_cache = <<>>
    /\ struct_dep_cache = <<>>
    /\ deps = <<>>
    /\ nodes = <<>>
    /\ kahn = NoKahn
    /\ node_order = <<>>
    /\ body_blocks = <<>>
    /\ diagnostics = NoDiagnostics
    /\ traits = [requests |-> <<>>, notifications |-> <<>>]

\* parse_schema, collect_extra_params, build_name_map, Generator(...)
Parsed(parsed, extras) ==
    /\ model' = parsed
    /\ extra_params' = extras
    /\ name_map' = build_name_map(definition_names(parsed, extras))

\* The run ends in an exception (a KeyError of parse_schema, the ValueError
\* of render_type): nothing is written.
Raised ==
    /\ pc' = "raised"
    /\ UNCHANGED << model, extra_params, name_map, body_blocks, diagnostics, traits >>

ParseSchema ==
    /\ pc = "parse"
    /\ IF missing_key(input) THEN Raised
       ELSE /\ Bind(parse_schema(input), LAMBDA parsed :
                    Parsed(parsed,
                           collect_extra_params(parsed.requests, parsed.notifications)))
            /\ pc' = "deps"
            /\ UNCHANGED << body_blocks, diagnostics, traits >>
    /\ UNCHANGED << input, flattened_property_cache, struct_dep_cache, deps, nodes, kahn,
                    node_order >>

\* One iteration of `for struct_name in self.struct_names` in
\* build_node_dependencies: the set yields its elements in any order.
Visited(caches) ==
    /\ flattened_property_cache' = caches.flattened
    /\ struct_dep_cache' = caches.struct_dep

VisitStruct(struct_name) ==
    /\ pc = "deps"
    /\ struct_name \in struct_names(model) \ DOMAIN struct_dep_cache
    /\ Visited(visit_struct(model,
                            [ flattened |-> flattened_property_cache,
                              struct_dep |-> struct_dep_cache ],
                            struct_name))
    /\ UNCHANGED << input, pc, model, extra_params, name_map, deps, nodes, kahn,
                    node_order, body_blocks, diagnostics, traits >>

Graphed(found, sorted) ==
    /\ deps' = found
    /\ nodes' = sorted
    /\ kahn' = kahn_setup(sorted, found)

\* The rest of build_node_dependencies (the alias loop, the filter, the
\* sort) and the setup of topological_order.
BuildGraph ==
    /\ pc = "deps"
    /\ DOMAIN struct_dep_cache = struct_names(model)
    /\ Bind(graph_nodes(model), LAMBDA node_set :
           Graphed(filtered_dependencies(model, struct_dep_cache, node_set),
                   SortedNodes(node_set)))
    /\ pc' = "kahn"
    /\ UNCHANGED << input, model, extra_params, name_map, flattened_property_cache,
                    struct_dep_cache, node_order, body_blocks, diagnostics, traits >>

\* One iteration of the while loop of topological_order.
KahnPop ==
    /\ pc = "kahn"
    /\ kahn.queue # <<>>
    /\ kahn' = kahn_pop(kahn)
    /\ UNCHANGED << input, pc, model, extra_params, name_map, flattened_property_cache,
                    struct_dep_cache, deps, nodes, node_order, body_blocks, diagnostics,
                    traits >>

\* The queue is empty: the leftover nodes are appended and the order returned.
KahnFinish ==
    /\ pc = "kahn"
    /\ kahn.queue = <<>>
    /\ node_order' = kahn_finish(nodes, kahn.ordered)
    /\ pc' = "emit"
    /\ UNCHANGED << input, model, extra_params, name_map, flattened_property_cache,
                    struct_dep_cache, deps, nodes, kahn, body_blocks, diagnostics, traits >>

Emitted(emitted) ==
    IF block_raises(emitted.block) THEN Raised
    ELSE /\ body_blocks' = Append(body_blocks, emitted.block)
         /\ diagnostics' = diagnosed(diagnostics, emitted)
         /\ UNCHANGED << pc, model, extra_params, name_map, traits >>

\* emitters[kind](name) for the next node of the order.
EmitBlock ==
    /\ pc = "emit"
    /\ Len(body_blocks) < Len(node_order)
    /\ Emitted(emit_node(model, name_map, flattened_property_cache,
                         node_order[Len(body_blocks) + 1]))
    /\ UNCHANGED << input, flattened_property_cache, struct_dep_cache, deps, nodes, kahn,
                    node_order >>

Traited(entries) ==
    IF traits_raise(entries) THEN Raised
    ELSE /\ body_blocks' = body_blocks \o emit_extra_param_structs(extra_params, name_map)
         /\ traits' = entries
         /\ pc' = "done"
         /\ UNCHANGED << model, extra_params, name_map, diagnostics >>

\* emit_extra_param_structs and emit_method_traits, after the last block.
EmitTail ==
    /\ pc = "emit"
    /\ Len(body_blocks) = Len(node_order)
    /\ Traited(method_traits(model, name_map, extra_params))
    /\ UNCHANGED << input, flattened_property_cache, struct_dep_cache, deps, nodes, kahn,
                    node_order >>

Next ==
    \/ ParseSchema
    \/ \E struct_name \in struct_names(model) : VisitStruct(struct_name)
    \/ BuildGraph
    \/ KahnPop
    \/ KahnFinish
    \/ EmitBlock
    \/ EmitTail

\* ------------------------------------------------------------ schemas

Prop(name, type, optional, documentation) ==
    [name |-> name, type |-> type, optional |-> optional, documentation |-> documentation]

StructItem(name, extends, mixins, properties) ==
    [name |-> name, extends |-> extends, mixins |-> mixins, properties |-> properties]

EnumItem(name, type, values, supportsCustomValues) ==
    [name |-> name, type |-> type, values |-> values,
     supportsCustomValues |-> supportsCustomValues]

EnumValue(name, value) == [name |-> name, value |-> value]

AliasItem(name, type) == [name |-> name, type |-> type]

Schema(structures, enumerations, typeAliases, requests, notifications) ==
    [ structures |-> structures, enumerations |-> enumerations,
      typeAliases |-> typeAliases, requests |-> requests,
      notifications |-> notifications ]

RequestItem(method, typeName, params, result) ==
    [method |-> method, typeName |-> typeName, params |-> params, result |-> result]

NotificationItem(method, typeName, params) ==
    [method |-> method, typeName |-> typeName, params |-> params]

n_A == <<"A">>
n_B == <<"B">>
n_C == <<"C">>
n_K == <<"K">>
n_T == <<"T">>
n_LSPAny == <<"L", "S", "P", "A", "n", "y">>
n_a == <<"a">>
n_p == <<"p">>
n_b == <<"b">>
n_d == <<"d">>
n_D == <<"D">>
n_L == <<"L">>
n_S == <<"S">>
n_id == <<"i", "d">>
n_id_2 == <<"i", "d", "_", "2">>
n_Id == <<"I", "d">>

\* The closed string enum K = {"a"}.
EnumK == EnumItem(n_K, Base(s_string), <<EnumValue(n_a, JStr(n_a))>>, FALSE)

\* The sequences over S of length at most n.
RECURSIVE SeqsUpTo(_, _)
SeqsUpTo(S, n) ==
    IF n = 0 THEN {<<>>}
    ELSE SeqsUpTo(S, n - 1)
         \cup {Append(q, x) : q \in {r \in SeqsUpTo(S, n - 1) : Len(r) = n - 1}, x \in S}

\* ------------------------------------------------------------ dependency graphs
\* Three structs, the closed enum K, the alias T and the recursive alias
\* LSPAny; the references run in both directions, so that some of the
\* graphs have cycles.

\* How deep a reference is wrapped in arrays.
MaxNesting == 1

RECURSIVE Nested(_, _)
Nested(type, depth) == IF depth = 0 THEN type ELSE ArrayOf(Nested(type, depth - 1))

GraphProps ==
    {<<>>}
    \cup {<<Prop(n_p, Nested(Ref(target), depth), FALSE, None)>> :
            target \in {n_A, n_B, n_C, n_T}, depth \in 0..MaxNesting}

\* The properties of struct C: none, or references to A and to B.
GraphPropsC ==
    { <<>>,
      <<Prop(n_p, Ref(n_A), FALSE, None), Prop(n_a, MapOf(Base(s_string), Ref(n_B)), TRUE, None)>> }

\* (extends, mixins) of struct C
GraphParents ==
    { << <<>>, <<>> >>,
      << <<Base(s_string), Ref(n_A)>>, <<>> >>,
      << <<Ref(n_A)>>, <<Ref(n_B)>> >>,
      << <<Ref(n_B)>>, <<Ref(n_K)>> >> }

GraphAliasTypes ==
    {Ref(n_A), Ref(n_K), StringLiteral(JStr(n_a)), Ref(n_LSPAny), Ref(n_T)}

GraphSchemas ==
    { Schema(<< StructItem(n_A, <<>>, <<>>, props_a),
                StructItem(n_B, <<>>, <<>>, props_b),
                StructItem(n_C, parents[1], parents[2], props_c) >>,
             <<EnumK>>,
             <<AliasItem(n_T, alias_type), AliasItem(n_LSPAny, Base(s_string))>>,
             <<>>, <<>>) :
        props_a \in GraphProps, props_b \in GraphProps, props_c \in GraphPropsC,
        parents \in GraphParents, alias_type \in GraphAliasTypes }

InitGraph == \E schema \in GraphSchemas : Start(schema)

SpecGraph == InitGraph /\ [][Next]_vars

\* The nodes reachable along the edges of graph from the frontier.
RECURSIVE Descendants(_, _, _)
Descendants(graph, frontier, seen) ==
    IF frontier \subseteq seen THEN seen
    ELSE Descendants(graph, UNION {graph[n] : n \in frontier \ seen}, seen \cup frontier)

Acyclic(graph) == \A n \in DOMAIN graph : n \notin Descendants(graph, graph[n], {})

\* Every dependency of every node of the order stands before the node.
DependenciesFirst(order, graph) ==
    \A i \in DOMAIN order :
        \A dep \in graph[order[i]] : \E j \in 1..(i - 1) : order[j] = dep

\* C1, as corrected: when the dependency graph built by
\* build_node_dependencies has no cycle, every node of the emission order
\* stands behind every node of its dependency set.
C1_AcyclicOrderIsTopological ==
    (pc \in {"emit", "done"} /\ Acyclic(deps)) => DependenciesFirst(node_order, deps)

\* An acyclic graph is ordered in which a node has two dependencies and a
\* dependency has a dependency of its own.
C1_Witness ==
    /\ pc = "done"
    /\ Acyclic(deps)
    /\ \E n \in DOMAIN deps :
          /\ Cardinality(deps[n]) >= 2
          /\ \E m \in deps[n] : deps[m] # {}

\* C1 as stated: the same for every schema, cyclic graphs included.
C1_EveryOrderIsTopological ==
    pc \in {"emit", "done"} => DependenciesFirst(node_order, deps)

\* ------------------------------------------------------------ member names
\* One struct S whose properties are named id, id_2 and Id, in every order
\* and with repetitions.

\* How many properties the struct has at most.
MaxMembers == 3

MemberProps == {Prop(name, Base(s_integer), FALSE, None) : name \in {n_id, n_id_2, n_Id}}

MemberSchemas ==
    { Schema(<<StructItem(n_S, <<>>, <<>>, props)>>, <<>>, <<>>, <<>>, <<>>) :
        props \in SeqsUpTo(MemberProps, MaxMembers) }

InitMembers == \E schema \in MemberSchemas : Start(schema)

SpecMembers == InitMembers /\ [][Next]_vars

\* The emitted struct blocks.
StructBlocks == {body_blocks[i] : i \in {j \in DOMAIN body_blocks : body_blocks[j].kind = "S"}}

\* C2 as stated: after the renaming pass of emit_struct the names of the
\* members of an emitted struct are pairwise distinct.
C2_MemberNamesAreDistinct ==
    \A block \in StructBlocks :
        \A i, j \in DOMAIN block.members :
            i # j => block.members[i].name # block.members[j].name

\* ------------------------------------------------------------ inheritance
\* Structs A, B and D with single parents: chains, the cycle A <-> B, A its
\* own parent, and the property id declared along the chain with types that
\* do and do not narrow safely.

IntegerProp(name) == Prop(name, Base(s_integer), FALSE, None)

InheritParentsA == {<<>>, <<Ref(n_B)>>, <<Ref(n_A)>>}
InheritParentsB == {<<>>, <<Ref(n_A)>>}
InheritParentsD == {<<>>, <<Ref(n_A)>>, <<Ref(n_B)>>}

InheritPropsA ==
    { <<IntegerProp(n_a)>>,
      <<IntegerProp(n_id)>>,
      <<IntegerProp(n_id), IntegerProp(n_a)>>,
      <<Prop(n_a, Ref(n_D), FALSE, None)>> }

InheritPropsB ==
    { <<IntegerProp(n_b)>>,
      <<Prop(n_id, Base(s_string), FALSE, None), IntegerProp(n_b)>> }

InheritPropsD ==
    { <<IntegerProp(n_d)>>,
      <<Prop(n_id, Base(s_string), FALSE, None)>>,
      <<IntegerProp(n_id)>>,
      <<IntegerProp(n_d), Prop(n_id, Base(s_string), FALSE, None)>>,
      <<Prop(n_id, Base(s_string), TRUE, None)>>,
      <<Prop(n_id, IntegerLiteral(JInt(1)), FALSE, None), IntegerProp(n_a)>> }

InheritSchemas ==
    { Schema(<< StructItem(n_A, parents_a, <<>>, props_a),
                StructItem(n_B, parents_b, <<>>, props_b),
                StructItem(n_D, parents_d, <<>>, props_d) >>,
             <<>>, <<>>, <<>>, <<>>) :
        parents_a \in InheritParentsA, parents_b \in InheritParentsB,
        parents_d \in InheritParentsD, props_a \in InheritPropsA,
        props_b \in InheritPropsB, props_d \in InheritPropsD }

InitInherit == \E schema \in InheritSchemas : Start(schema)

SpecInherit == InitInherit /\ [][Next]_vars

\* The emitted block of a struct.
BlockOf(struct_name) == CHOOSE block \in StructBlocks : block.schema_name = struct_name

Emitted_(struct_name) == \E block \in StructBlocks : block.schema_name = struct_name

\* The struct has exactly one parent, and that parent is a struct.
SingleParent(struct_name) ==
    /\ Len(model.structures[struct_name].parents) = 1
    /\ model.structures[struct_name].parents[1] \in struct_names(model)

\* The positions of the properties of a list whose member name is the given one.
Named(props, member_name) ==
    {i \in DOMAIN props : property_member_name(props[i].name).text = member_name}

\* The scenario of C3 at a child: its parent's flattened list has one
\* property id, a required integer, and the child declares one id, a string.
UnsafeIdOverride(child) ==
    /\ SingleParent(child)
    /\ LET inherited == flattened_property_cache[model.structures[child].parents[1]]
           locals == model.structures[child].properties
       IN  /\ Cardinality({i \in DOMAIN inherited :
                             property_member_name(inherited[i].prop.name).text = n_id}) = 1
           /\ \A i \in DOMAIN inherited :
                  property_member_name(inherited[i].prop.name).text = n_id
                  => /\ inherited[i].prop.type_expr = Base(s_integer)
                     /\ ~inherited[i].prop.optional
           /\ Cardinality(Named(locals, n_id)) = 1
           /\ \A i \in Named(locals, n_id) : locals[i].type_expr = Base(s_string)

\* The members of a block that were inherited, and those that were not.
InheritedIds(block) ==
    {i \in DOMAIN block.members :
        block.members[i].base_name = n_id /\ block.members[i].inherited_from # None}

LocalIds(block) ==
    {i \in DOMAIN block.members :
        block.members[i].base_name = n_id /\ block.members[i].inherited_from = None}

UnsafeOverrideRecorded(child) ==
    \E i \in DOMAIN diagnostics.unsafe_override_warnings :
        /\ diagnostics.unsafe_override_warnings[i].struct = child
        /\ diagnostics.unsafe_override_warnings[i].member = n_id

\* C3, as corrected: in the scenario an unsafe-override diagnostic is
\* recorded and both members are emitted, the inherited integer member under
\* the bare name id and the child's own string member renamed to id_2.
C3_InheritedKeepsNameLocalRenamed ==
    \A child \in struct_names(model) :
        (Emitted_(child) /\ UnsafeIdOverride(child)) =>
            /\ UnsafeOverrideRecorded(child)
            /\ Cardinality(InheritedIds(BlockOf(child))) = 1
            /\ Cardinality(LocalIds(BlockOf(child))) = 1
            /\ \A i \in InheritedIds(BlockOf(child)) :
                   /\ BlockOf(child).members[i].name = n_id
                   /\ BlockOf(child).members[i].cxx_type = s_integer
            /\ \A i \in LocalIds(BlockOf(child)) :
                   /\ BlockOf(child).members[i].name = n_id_2
                   /\ BlockOf(child).members[i].cxx_type \in
                          {s_string, <<"optional<">> \o s_string \o <<">">>}

\* The scenario has been emitted: D extends A, A declares id: integer, D
\* declares a required id: string.
C3_Witness ==
    /\ pc = "done"
    /\ UnsafeIdOverride(n_D)
    /\ model.structures[n_D].parents = <<n_A>>
    /\ \A i \in Named(model.structures[n_D].properties, n_id) :
           ~model.structures[n_D].properties[i].optional

\* C3 as stated: the child's own member keeps the bare name id and the
\* inherited member is renamed to id_2.
C3_LocalKeepsNameInheritedRenamed ==
    \A child \in struct_names(model) :
        (Emitted_(child) /\ UnsafeIdOverride(child)) =>
            /\ UnsafeOverrideRecorded(child)
            /\ \E i \in LocalIds(BlockOf(child)) : BlockOf(child).members[i].name = n_id
            /\ \E i \in InheritedIds(BlockOf(child)) :
                   BlockOf(child).members[i].name = n_id_2

\* The member names of the properties of a flattened list, in order.
FlattenedNames(flats) ==
    [i \in DOMAIN flats |-> property_member_name(flats[i].prop.name).text]

\* sub is obtained from full by leaving positions out.
RECURSIVE IsSubsequence(_, _)
IsSubsequence(sub, full) ==
    IF sub = <<>> THEN TRUE
    ELSE IF full = <<>> THEN FALSE
    ELSE IF Head(sub) = Head(full) THEN IsSubsequence(Tail(sub), Tail(full))
    ELSE IsSubsequence(sub, Tail(full))

\* The number of members of a block that were inherited.
InheritedCount(block) ==
    Cardinality({i \in DOMAIN block.members : block.members[i].inherited_from # None})

\* C10: in the block of a struct with exactly one parent that is a struct,
\* the inherited members come first, in the order of the parent's flattened
\* property list, and the struct's own properties follow them, in their
\* order.
C10_InheritedInOrderThenLocals ==
    \A child \in struct_names(model) :
        (Emitted_(child) /\ SingleParent(child)) =>
            LET block == BlockOf(child)
                parent == model.structures[child].parents[1]
                locals == model.structures[child].properties
                count == InheritedCount(block)
            IN  /\ \A i \in 1..count : block.members[i].inherited_from = parent
                /\ Len(block.members) = count + Len(locals)
                /\ \A i \in DOMAIN locals :
                       /\ block.members[count + i].inherited_from = None
                       /\ block.members[count + i].base_name
                              = property_member_name(locals[i].name).text
                /\ IsSubsequence(
                       [i \in 1..count |-> block.members[i].base_name],
                       FlattenedNames(flattened_property_cache[parent]))

\* D extends A extends B has been emitted with two inherited members and a
\* member of its own.
C10_Witness ==
    /\ pc = "done"
    /\ model.structures[n_D].parents = <<n_A>>
    /\ model.structures[n_A].parents = <<n_B>>
    /\ model.structures[n_B].parents = <<>>
    /\ InheritedCount(BlockOf(n_D)) >= 2
    /\ Len(BlockOf(n_D).members) > InheritedCount(BlockOf(n_D))

\* The header of a run in which struct_names yields its names in sorted order.
ReferenceRun ==
    generate_protocol_header(input, SortedStrs(SetToSeq(struct_names(model))))

\* C6 as stated: the emission order and every block are the same for
\* every order in which the set struct_names yields its elements.
C6_OutputIgnoresIterationOrder ==
    pc = "done" =>
        /\ node_order = ReferenceRun.node_order
        /\ body_blocks = ReferenceRun.body_blocks

\* ------------------------------------------------------------ definition names
\* A structure, an enum, an alias and a request without params whose names
\* sanitize to the same identifier or to the suffixed form of one another.

n_A_B == <<"A", "_", "B">>
n_AdashB == <<"A", "-", "B">>
n_A_B_2 == <<"A", "_", "B", "_", "2">>
n_A_B_3 == <<"A", "_", "B", "_", "3">>
n_m == <<"m">>

NameChoices == {n_A_B, n_AdashB, n_A_B_2, n_A_B_3, <<>>}

\* typeName of the request: with the suffix Request cut off and Params
\* appended it is A_B_2Params or A-B_2Params.
TypeNameChoices == {None, n_A_B_2 \o s_Request, n_AdashB \o <<"_", "2">> \o s_Request}

NameSchemas ==
    { Schema(<<StructItem(struct_name, <<>>, <<>>, <<>>)>>,
             <<EnumItem(enum_name, Base(s_string), <<>>, FALSE)>>,
             <<AliasItem(alias_name, Base(s_string)),
               AliasItem(n_AdashB \o s_Params, Base(s_string))>>,
             <<RequestItem(n_m, type_name, NoneExpr, NoneExpr)>>,
             <<>>) :
        struct_name \in NameChoices, enum_name \in NameChoices,
        alias_name \in NameChoices, type_name \in TypeNameChoices }

InitNames == \E schema \in NameSchemas : Start(schema)

SpecNames == InitNames /\ [][Next]_vars

\* C4: build_name_map maps no two schema names to the same identifier.
C4_NameMapIsInjective ==
    \A one, other \in DOMAIN name_map :
        one # other => name_map[one] # name_map[other]

\* A_B took the suffixed name A_B_2, which is the sanitized form of the
\* schema name A_B_2, and that one moved on to A_B_2_2.
C4_Witness ==
    /\ pc = "done"
    /\ {n_AdashB, n_A_B, n_A_B_2} \subseteq DOMAIN name_map
    /\ name_map[n_AdashB] = n_A_B
    /\ name_map[n_A_B] = n_A_B_2
    /\ name_map[n_A_B_2] = n_A_B_2 \o <<"_", "2">>

\* ------------------------------------------------------------ rendered types
\* A struct S with one property p, required or optional, of a boolean or
\* another type, and an alias T of an `or` type over null, two base types
\* and a nested `or`.

\* How many items the `or` of the alias has at most.
MaxArms == 4

OrArms ==
    { Base(s_null), Base(s_integer), Base(s_string),
      OrOf(<<Base(s_null), Base(s_integer)>>) }

RenderPropTypes ==
    { Base(s_boolean), BooleanLiteral(JBool(TRUE)), Base(s_integer),
      OrOf(<<Base(s_boolean)>>), OrOf(<<Base(s_integer), Base(s_string)>>),
      OrOf(<<Base(s_boolean), Base(s_null)>>) }

RenderSchemas ==
    { Schema(<<StructItem(n_S, <<>>, <<>>, <<Prop(n_p, prop_type, optional, None)>>)>>,
             <<>>,
             <<AliasItem(n_T, OrOf(items))>>,
             <<>>, <<>>) :
        prop_type \in RenderPropTypes, optional \in BOOLEAN,
        items \in SeqsUpTo(OrArms, MaxArms) }

InitRender == \E schema \in RenderSchemas : Start(schema)

SpecRender == InitRender /\ [][Next]_vars

\* The emitted alias blocks.
AliasBlocks == {body_blocks[i] : i \in {j \in DOMAIN body_blocks : body_blocks[j].kind = "A"}}

\* The items of seq from position i on that no earlier position holds.
RECURSIVE KeepFirst(_, _)
KeepFirst(seq, i) ==
    IF i > Len(seq) THEN <<>>
    ELSE (IF \E j \in 1..(i - 1) : seq[j] = seq[i] THEN <<>> ELSE <<seq[i]>>)
         \o KeepFirst(seq, i + 1)

\* The renderings of the items of an `or` other than null, in order.
RenderedArms(items) ==
    LET others == SelectSeq(items, LAMBDA item : item # Base(s_null))
    IN  [i \in DOMAIN others |-> render_type(model, name_map, others[i], None)]

\* C9: an `or` with null and exactly one other arm T renders as
\* nullable<render(T)>; with null and several distinct rendered arms it
\* renders as variant<null, T1, T2, ...>, null first and the other arms
\* deduplicated in first-seen order.
C9_NullableAndVariant ==
    \A block \in AliasBlocks :
        LET expr == model.aliases[block.schema_name].type_expr
        IN  (expr.kind = "or" /\ \E i \in DOMAIN expr.items : expr.items[i] = Base(s_null)) =>
                LET arms == RenderedArms(expr.items)
                    distinct == KeepFirst(arms, 1)
                IN  /\ Len(arms) = 1 =>
                           block.type = <<"nullable<">> \o arms[1] \o <<">">>
                    /\ Len(distinct) >= 2 =>
                           block.type =
                               <<"variant<">> \o s_null \o <<", ">> \o JoinComma(distinct)
                               \o <<">">>

\* or [string, null, integer, string] has been rendered: null moves to the
\* front and the second string is dropped.
C9_Witness ==
    /\ pc = "done"
    /\ model.aliases[n_T].type_expr =
           OrOf(<<Base(s_string), Base(s_null), Base(s_integer), Base(s_string)>>)
    /\ \E block \in AliasBlocks :
           block.type = <<"variant<">> \o s_null \o <<", ">> \o s_string \o <<", ">>
                        \o s_integer \o <<">">>

\* C7 as stated: an optional property whose type renders as boolean is
\* emitted as optional_bool with the default {}.
C7_OptionalBooleanIsOptionalBool ==
    \A block \in StructBlocks :
        LET props == model.structures[block.schema_name].properties
        IN  \A i \in DOMAIN props :
                (/\ props[i].optional
                 /\ render_type(model, name_map, props[i].type_expr, block.schema_name)
                        = s_boolean)
                => /\ block.members[i].cxx_type = <<"optional_bool">>
                   /\ block.members[i].default_value = <<"{}">>

\* ------------------------------------------------------------ string literals
\* Two string or integer enums, closed or open, that own or share the
\* values a and b; a struct and an alias of a stringLiteral type. The first
\* enum is named K or has the empty name.

LiteralEnums ==
    { << EnumItem(first_name, Base(first_base), first_values, first_open),
         EnumItem(n_L, Base(s_string), second_values, second_open) >> :
        first_name \in {n_K, <<>>},
        first_base \in {s_string, s_integer},
        first_values \in { <<EnumValue(n_a, JStr(n_a))>>,
                           <<EnumValue(n_a, JStr(n_a)), EnumValue(n_b, JStr(n_b))>> },
        first_open \in BOOLEAN,
        second_values \in {<<EnumValue(n_a, JStr(n_a))>>, <<EnumValue(n_b, JStr(n_b))>>},
        second_open \in BOOLEAN }

LiteralSchemas ==
    { Schema(<<StructItem(n_S, <<>>, <<>>,
                          <<Prop(n_p, StringLiteral(JStr(text)), FALSE, None)>>)>>,
             enums,
             <<AliasItem(n_T, StringLiteral(JStr(text)))>>,
             <<>>, <<>>) :
        enums \in LiteralEnums, text \in {n_a, n_b, n_d} }

InitLiterals == \E schema \in LiteralSchemas : Start(schema)

SpecLiterals == InitLiterals /\ [][Next]_vars

\* The closed string enums that have the text among their values.
LiteralOwners(text) ==
    {name \in enum_names(model) :
        /\ model.enumerations[name].type_expr = Base(s_string)
        /\ ~model.enumerations[name].supports_custom_values
        /\ \E i \in DOMAIN model.enumerations[name].values :
               StrOf(model.enumerations[name].values[i].value) = text}

\* C8 as stated: a stringLiteral renders as enum_string<Owner>, Owner taken
\* through the name map, exactly when its text is a value of exactly one
\* closed string enum, and as string otherwise.
C8_LiteralFoldsToItsOnlyOwner ==
    \A block \in AliasBlocks :
        LET expr == model.aliases[block.schema_name].type_expr
        IN  expr.kind = "stringLiteral" =>
                LET owners == LiteralOwners(StrOf(expr.value))
                IN  block.type =
                        IF Cardinality(owners) = 1
                        THEN <<"enum_string<">> \o name_map[CHOOSE name \in owners : TRUE]
                             \o <<">">>
                        ELSE s_string

\* ------------------------------------------------------------ requests
\* Two structs in either order, two requests over the methods m and n (the
\* same method twice included) with or without params, and a notification.

n_n == <<"n">>

TraitParams == {NoneExpr, Ref(n_A), Ref(n_B)}

TraitRequests ==
    { << RequestItem(first_method, None, first_params, NoneExpr),
         RequestItem(second_method, None, second_params, Base(s_integer)) >> :
        first_method \in {n_m, n_n}, second_method \in {n_m, n_n},
        first_params \in TraitParams, second_params \in TraitParams }

TraitStructs ==
    { << StructItem(n_A, <<>>, <<>>, <<>>), StructItem(n_B, <<>>, <<>>, <<>>) >>,
      << StructItem(n_B, <<>>, <<>>, <<>>), StructItem(n_A, <<>>, <<>>, <<>>) >> }

TraitSchemas ==
    { Schema(structs, <<>>, <<>>, requests, <<NotificationItem(n_m, None, NoneExpr)>>) :
        structs \in TraitStructs, requests \in TraitRequests }

InitTraits == \E schema \in TraitSchemas : Start(schema)

SpecTraits == InitTraits /\ [][Next]_vars

\* The rearrangements of a list.
Permutations_(seq) ==
    {[i \in DOMAIN seq |-> seq[f[i]]] :
        f \in {g \in [DOMAIN seq -> DOMAIN seq] :
                 \A i, j \in DOMAIN seq : g[i] = g[j] => i = j}}

\* The schemas that hold the same entries in their five lists.
Rearranged(schema) ==
    { Schema(structures, enumerations, typeAliases, requests, notifications) :
        structures \in Permutations_(schema.structures),
        enumerations \in Permutations_(schema.enumerations),
        typeAliases \in Permutations_(schema.typeAliases),
        requests \in Permutations_(schema.requests),
        notifications \in Permutations_(schema.notifications) }

\* The header generated from a schema, struct_names iterated in sorted order.
HeaderOf(schema) ==
    generate_protocol_header(
        schema,
        SortedStrs(SetToSeq({schema.structures[i].name : i \in DOMAIN schema.structures})))

\* C5 as stated: the parsed definitions, the name map, the emission order,
\* the blocks (the synthesized-params structs among them) and the trait
\* entries are the same for every rearrangement of the entries of the lists.
C5_OutputIgnoresEntryOrder ==
    pc = "done" =>
        \A schema \in Rearranged(input) :
            /\ HeaderOf(schema).model.structures = model.structures
            /\ HeaderOf(schema).model.enumerations = model.enumerations
            /\ HeaderOf(schema).model.aliases = model.aliases
            /\ HeaderOf(schema).name_map = name_map
            /\ HeaderOf(schema).node_order = node_order
            /\ HeaderOf(schema).body_blocks = body_blocks
            /\ HeaderOf(schema).traits = traits

\* ------------------------------------------------------------ safe narrowing

\* The type expressions of the properties of the model.
PropertyTypes ==
    UNION { {model.structures[s].properties[i].type_expr :
                 i \in DOMAIN model.structures[s].properties} :
            s \in struct_names(model) }

\* The member names at which is_safe_override judges the child's own
\* property a safe narrowing of a property of its parent's flattened list.
SafelyNarrowed(child) ==
    LET inherited == flattened_property_cache[model.structures[child].parents[1]]
    IN  { property_member_name(inherited[i].prop.name).text :
            i \in { j \in DOMAIN inherited :
                      LET local_prop ==
                              local_prop_by_member_name(
                                  model.structures[child],
                                  property_member_name(inherited[j].prop.name).text)
                      IN  /\ local_prop # NoProp
                          /\ is_safe_override(inherited[j].prop, local_prop).safe } }

\* The member names of a struct that a diagnostic was recorded for.
Diagnosed(struct_name) ==
    { diagnostics.unsafe_override_warnings[i].member :
        i \in { j \in DOMAIN diagnostics.unsafe_override_warnings :
                  diagnostics.unsafe_override_warnings[j].struct = struct_name } }
    \cup
    { diagnostics.member_collision_warnings[i].base_name :
        i \in { j \in DOMAIN diagnostics.member_collision_warnings :
                  diagnostics.member_collision_warnings[j].struct = struct_name } }

\* C11 as stated: is_type_subtype is reflexive, and a member whose local
\* property is_safe_override judged a safe narrowing of an inherited one
\* has no unsafe-override and no member-collision diagnostic in its struct.
C11_SafeNarrowingIsSilent ==
    /\ \A type \in PropertyTypes : is_type_subtype(type, type)
    /\ \A child \in struct_names(model) :
           (Emitted_(child) /\ SingleParent(child)) =>
               SafelyNarrowed(child) \cap Diagnosed(child) = {}

\* ------------------------------------------------------------ invalid schemas
\* A struct S with one property, an alias T and a request, where a property
\* may lack its type, a type expression may have a kind the generator does
\* not know, and a reference may name U, which nothing declares.

n_U == <<"U">>

UnknownKind == [kind |-> "bogus"]

InvalidTypes ==
    { Base(s_integer), Ref(n_T), Ref(n_U), UnknownKind,
      ArrayOf(Ref(n_U)), ArrayOf(UnknownKind), OrOf(<<Base(s_null), UnknownKind>>) }

InvalidProps ==
    { <<Prop(n_p, type, optional, None)>> :
        type \in InvalidTypes, optional \in BOOLEAN }
    \cup { <<[name |-> n_p, optional |-> FALSE, documentation |-> None]>> }

InvalidAliasTypes == {Base(s_string), Ref(n_S), Ref(n_U), UnknownKind}

InvalidParams == {NoneExpr, Ref(n_S), Ref(n_U), UnknownKind}

InvalidSchemas ==
    { Schema(<<StructItem(n_S, <<>>, <<>>, props)>>,
             <<>>,
             <<AliasItem(n_T, alias_type)>>,
             <<RequestItem(n_m, None, params, NoneExpr)>>,
             <<>>) :
        props \in InvalidProps, alias_type \in InvalidAliasTypes,
        params \in InvalidParams }

InitInvalid == \E schema \in InvalidSchemas : Start(schema)

SpecInvalid == InitInvalid /\ [][Next]_vars

\* The kinds of type expression the schema language has.
TypeKinds ==
    { "base", "reference", "array", "map", "tuple", "or", "and", "literal",
      "stringLiteral", "integerLiteral", "booleanLiteral" }

\* Every kind in the type expression is one of the schema language, and
\* every reference names a declared definition.
RECURSIVE WellFormedType(_, _)
WellFormedType(type, declared) ==
    CASE type.kind = "reference" -> type.name \in declared
      [] type.kind = "array" -> WellFormedType(type.element, declared)
      [] type.kind = "map" ->
            WellFormedType(type.key, declared) /\ WellFormedType(type.value, declared)
      [] type.kind \in {"or", "and", "tuple"} ->
            \A i \in DOMAIN type.items : WellFormedType(type.items[i], declared)
      [] OTHER -> type.kind \in TypeKinds

\* The names the structures, enumerations and aliases of a schema declare.
Declared(schema) ==
    {schema.structures[i].name : i \in DOMAIN schema.structures}
    \cup {schema.enumerations[i].name : i \in DOMAIN schema.enumerations}
    \cup {schema.typeAliases[i].name : i \in DOMAIN schema.typeAliases}

\* The schema is structurally valid: no required key is missing, no kind is
\* unknown, no reference is undeclared.
StructurallyValid(schema) ==
    /\ ~missing_key(schema)
    /\ \A i \in DOMAIN schema.structures :
           \A j \in DOMAIN schema.structures[i].properties :
               WellFormedType(schema.structures[i].properties[j].type, Declared(schema))
    /\ \A i \in DOMAIN schema.typeAliases :
           WellFormedType(schema.typeAliases[i].type, Declared(schema))
    /\ \A i \in DOMAIN schema.requests :
           schema.requests[i].params # NoneExpr =>
               WellFormedType(schema.requests[i].params, Declared(schema))

\* C12 as stated: the generator reaches the point where it writes the
\* header only for a structurally valid schema; a missing required key, an
\* unknown kind and an undeclared reference each abort the run before.
C12_InvalidSchemaIsRejected ==
    pc = "done" => StructurallyValid(input)

\* ------------------------------------------------------------ synthesized params
\* A request and a notification over the methods m and n, each with or
\* without a typeName and with or without params.

n_ARequest == n_A \o s_Request
n_BNotification == n_B \o s_Notification
n_AParams == n_A \o s_Params
n_BParams == n_B \o s_Params

ParamsRequests ==
    { <<RequestItem(method, type_name, params, NoneExpr)>> :
        method \in {n_m, n_n}, type_name \in {None, n_ARequest},
        params \in {NoneExpr, Ref(n_A)} }

ParamsNotifications ==
    { <<NotificationItem(method, type_name, params)>> :
        method \in {n_m, n_n}, type_name \in {None, n_BNotification},
        params \in {NoneExpr, Ref(n_A)} }

ParamsSchemas ==
    { Schema(<<StructItem(n_A, <<>>, <<>>, <<>>)>>, <<>>, <<>>, requests, notifications) :
        requests \in ParamsRequests, notifications \in ParamsNotifications }

InitParams == \E schema \in ParamsSchemas : Start(schema)

SpecParams == InitParams /\ [][Next]_vars

\* The emitted synthesized-params structs.
ExtraBlocks == {body_blocks[i] : i \in {j \in DOMAIN body_blocks : body_blocks[j].kind = "X"}}

\* The name synthesized from an item's own typeName and method.
OwnParamsName(item) == derive_params_name(item.type_name, item.method)

\* For the items of one X-macro (its entries are in the order of
\* sorted_by_method): every item without params has its empty struct
\* emitted, and its entry names that struct as the params type.
OwnParamsInTraits(items, entries) ==
    \A k \in DOMAIN sorted_by_method(items) :
        LET item == sorted_by_method(items)[k]
        IN  item.params = NoneExpr =>
                /\ \E block \in ExtraBlocks :
                       /\ block.schema_name = OwnParamsName(item)
                       /\ block.name = name_map[OwnParamsName(item)]
                       /\ block.members = <<>>
                /\ entries[k][1] = name_map[OwnParamsName(item)]

\* C13 as stated: for every request and notification without params the
\* empty struct of the name synthesized from that item's typeName/method is
\* emitted and is the params type of that item's trait entry.
C13_AbsentParamsAreSynthesized ==
    pc = "done" =>
        /\ OwnParamsInTraits(model.requests, traits.requests)
        /\ OwnParamsInTraits(model.notifications, traits.notifications)

\* ------------------------------------------------------------ integer enums
\* One enum E over integer or uinteger, open or closed, with values on both
\* sides of the bounds of the 8 and 16 bit types, and a struct S that
\* refers to it.

\* How many values the enum declares at most.
MaxEnumValues == 2

n_E == <<"E">>
n_v == <<"v">>

EnumInts ==
    { -32769, -32768, -129, -128, -1, 0, 5, 127, 128, 200, 255, 256,
      32767, 32768, 65535, 65536 }

EnumValueLists ==
    { [i \in DOMAIN ints |-> EnumValue(n_v, JInt(ints[i]))] :
        ints \in SeqsUpTo(EnumInts, MaxEnumValues) }

EnumSchemas ==
    { Schema(<<StructItem(n_S, <<>>, <<>>, <<Prop(n_p, Ref(n_E), FALSE, None)>>)>>,
             <<EnumItem(n_E, Base(base), values, open)>>, <<>>, <<>>, <<>>) :
        base \in {s_integer, s_uinteger}, values \in EnumValueLists, open \in BOOLEAN }

InitEnums == \E schema \in EnumSchemas : Start(schema)

SpecEnums == InitEnums /\ [][Next]_vars

\* The emitted enum blocks.
EnumBlocks == {body_blocks[i] : i \in {j \in DOMAIN body_blocks : body_blocks[j].kind = "E"}}

\* The fixed-width types of a family, narrowest first.
TypeFamily(base_name) ==
    IF base_name = s_integer
    THEN << <<"std::int8_t">>, <<"std::int16_t">>, <<"std::int32_t">>, <<"std::int64_t">> >>
    ELSE << <<"std::uint8_t">>, <<"std::uint16_t">>, <<"std::uint32_t">>, <<"std::uint64_t">> >>

\* The value lies in the range of the type (the values of the model lie
\* within 32 bits, so the upper bounds of the wider types are not met).
InRange(type, value) ==
    CASE type = <<"std::int8_t">> -> -128 <= value /\ value <= 127
      [] type = <<"std::int16_t">> -> -32768 <= value /\ value <= 32767
      [] type \in {<<"std::int32_t">>, <<"std::int64_t">>} -> TRUE
      [] type = <<"std::uint8_t">> -> 0 <= value /\ value <= 255
      [] type = <<"std::uint16_t">> -> 0 <= value /\ value <= 65535
      [] type \in {<<"std::uint32_t">>, <<"std::uint64_t">>} -> 0 <= value

\* The integer values an enum declares.
DeclaredInts(enum_def) ==
    {enum_def.values[i].value.int :
        i \in {j \in DOMAIN enum_def.values : IsInt(enum_def.values[j].value)}}

\* The type is the narrowest of its family whose range holds every value.
Narrowest(type, family, ints) ==
    \E k \in DOMAIN family :
        /\ type = family[k]
        /\ \A value \in ints : InRange(family[k], value)
        /\ \A j \in 1..(k - 1) : \E value \in ints : ~InRange(family[j], value)

\* C14 as stated: a closed integer or uinteger enum with an integer value
\* is emitted over the narrowest type of its family whose range contains
\* every declared value; an open enum keeps its declared base.
C14_UnderlyingIsNarrowestFit ==
    \A block \in EnumBlocks :
        LET enum_def == model.enumerations[block.schema_name]
        IN  enum_def.type_expr.name \in {s_integer, s_uinteger} =>
                IF enum_def.supports_custom_values
                THEN block.underlying = enum_def.type_expr.name
                ELSE DeclaredInts(enum_def) # {} =>
                         Narrowest(block.underlying, TypeFamily(enum_def.type_expr.name),
                                   DeclaredInts(enum_def))

\* ------------------------------------------------------------ documented booleans
\* A struct S of one or two properties, boolean or not, optional or not,
\* with and without documentation that SUSPICIOUS_BOOL_PATTERNS match.

MaxDocumented == 2

DocChoices == {None, DocPlain, DocDefaultsToTrue, DocTrueIfOmitted}

DocumentedProps ==
    { Prop(n_p, type, optional, documentation) :
        type \in {Base(s_boolean), Base(s_integer)}, optional \in BOOLEAN,
        documentation \in DocChoices }

DocumentedLists ==
    { [i \in DOMAIN props |-> [props[i] EXCEPT !.name = IF i = 1 THEN n_p ELSE n_a]] :
        props \in SeqsUpTo(DocumentedProps, MaxDocumented) \ {<<>>} }

DocumentedSchemas ==
    { Schema(<<StructItem(n_S, <<>>, <<>>, props)>>, <<>>, <<>>, <<>>, <<>>) :
        props \in DocumentedLists }

InitDocumented == \E schema \in DocumentedSchemas : Start(schema)

SpecDocumented == InitDocumented /\ [][Next]_vars

\* The schema with the documentation of every property taken away.
Undocumented(schema) ==
    [ schema EXCEPT !.structures =
        [i \in DOMAIN schema.structures |->
            [ schema.structures[i] EXCEPT !.properties =
                [j \in DOMAIN schema.structures[i].properties |->
                    [schema.structures[i].properties[j] EXCEPT !.documentation = None]] ]] ]

\* The properties of S whose documentation promises a default of true.
SuspiciousBools ==
    { model.structures[n_S].properties[i].name :
        i \in { j \in DOMAIN model.structures[n_S].properties :
                  LET prop == model.structures[n_S].properties[j]
                  IN  /\ prop.optional
                      /\ prop.type_expr = Base(s_boolean)
                      /\ prop.doc \in {DocDefaultsToTrue, DocTrueIfOmitted} } }

\* C15: the blocks emitted are those emitted for the same schema without
\* documentation; an optional boolean is declared optional_bool with the
\* default {} whatever its documentation says; only the warning list tells
\* the suspicious documentation.
C15_DiagnosticsLeaveEmissionAlone ==
    pc = "done" =>
        /\ body_blocks = HeaderOf(Undocumented(input)).body_blocks
        /\ \A i \in DOMAIN model.structures[n_S].properties :
               LET prop == model.structures[n_S].properties[i]
               IN  (prop.optional /\ prop.type_expr = Base(s_boolean)) =>
                       /\ BlockOf(n_S).members[i].cxx_type = <<"optional_bool">>
                       /\ BlockOf(n_S).members[i].default_value = <<"{}">>
        /\ { diagnostics.bool_default_warnings[i].prop :
               i \in DOMAIN diagnostics.bool_default_warnings } = SuspiciousBools

\* Two optional booleans have been emitted, the first documented as
\* defaulting to true, the second undocumented: one warning.
C15_Witness ==
    /\ pc = "done"
    /\ Len(model.structures[n_S].properties) = 2
    /\ \A i \in 1..2 :
           /\ model.structures[n_S].properties[i].optional
           /\ model.structures[n_S].properties[i].type_expr = Base(s_boolean)
    /\ model.structures[n_S].properties[1].doc = DocDefaultsToTrue
    /\ model.structures[n_S].properties[2].doc = None
    /\ Len(diagnostics.bool_default_warnings) = 1
    /\ BlockOf(n_S).members[1].cxx_type = BlockOf(n_S).members[2].cxx_type
    /\ BlockOf(n_S).members[1].default_value = BlockOf(n_S).members[2].default_value

\* ------------------------------------------------------------ optional properties
\* A struct S of two properties p and a, optional or not, over types that
\* render as a variant, a nullable, a container of a variant and plain
\* names.

OptionalTypes ==
    { Base(s_boolean), Base(s_integer), BooleanLiteral(JBool(TRUE)), Ref(n_S),
      OrOf(<<Base(s_integer), Base(s_string)>>),
      OrOf(<<Base(s_integer), Base(s_null)>>),
      OrOf(<<Base(s_null), Base(s_integer), Base(s_string)>>),
      OrOf(<<Base(s_integer), Base(s_integer)>>),
      OrOf(<<>>),
      ArrayOf(OrOf(<<Base(s_integer), Base(s_string)>>)) }

OptionalSchemas ==
    { Schema(<<StructItem(n_S, <<>>, <<>>,
                          <<Prop(n_p, first, first_optional, None),
                            Prop(n_a, second, second_optional, None)>>)>>,
             <<>>, <<>>, <<>>, <<>>) :
        first \in OptionalTypes, second \in OptionalTypes,
        first_optional \in BOOLEAN, second_optional \in BOOLEAN }

InitOptional == \E schema \in OptionalSchemas : Start(schema)

SpecOptional == InitOptional /\ [][Next]_vars

\* The rendered text reads variant<args>.
ReadsVariant(text) ==
    /\ Len(text) >= 2
    /\ text[1] = "variant<"
    /\ text[Len(text)] = ">"

\* The type the claim gives an optional property whose type renders as text.
OptionalOf(text) ==
    IF ReadsVariant(text)
    THEN <<"optional_variant<">> \o SubSeq(text, 2, Len(text) - 1) \o <<">">>
    ELSE <<"optional<">> \o text \o <<">">>

\* C16: an optional property that is not a base boolean is declared
\* optional_variant<args> when its type renders as variant<args> and
\* optional<T> otherwise, with the default {}; an optional or [integer,
\* string] is optional_variant<integer, string> and an optional or
\* [integer, null] is optional<nullable<integer>>.
C16_OptionalWrapsRendering ==
    \A block \in StructBlocks :
        LET props == model.structures[block.schema_name].properties
        IN  \A i \in DOMAIN props :
                (props[i].optional /\ props[i].type_expr # Base(s_boolean)) =>
                    /\ block.members[i].default_value = <<"{}">>
                    /\ block.members[i].cxx_type =
                           OptionalOf(render_type(model, name_map, props[i].type_expr,
                                                  block.schema_name))
                    /\ props[i].type_expr = OrOf(<<Base(s_integer), Base(s_string)>>) =>
                           block.members[i].cxx_type =
                               <<"optional_variant<">> \o s_integer \o <<", ">> \o s_string
                               \o <<">">>
                    /\ props[i].type_expr = OrOf(<<Base(s_integer), Base(s_null)>>) =>
                           block.members[i].cxx_type =
                               <<"optional<", "nullable<">> \o s_integer \o <<">", ">">>

\* An optional or [integer, string] and an optional or [integer, null] have
\* been declared.
C16_Witness ==
    /\ pc = "done"
    /\ model.structures[n_S].properties[1].optional
    /\ model.structures[n_S].properties[1].type_expr
           = OrOf(<<Base(s_integer), Base(s_string)>>)
    /\ model.structures[n_S].properties[2].optional
    /\ model.structures[n_S].properties[2].type_expr
           = OrOf(<<Base(s_integer), Base(s_null)>>)
    /\ BlockOf(n_S).members[1].cxx_type[1] = "optional_variant<"
    /\ BlockOf(n_S).members[2].cxx_type[1] = "optional<"

\* ------------------------------------------------------------ the subtype relation
\* A struct D that extends A, both declaring the required property id, over
\* every pair of types built from four leaves: an or of up to MaxOrItems
\* leaves, an array, a pair.

MaxOrItems == 3

SubtypeLeaves ==
    { Base(s_integer), Base(s_string), Base(s_boolean), IntegerLiteral(JInt(1)) }

SubtypeTypes ==
    SubtypeLeaves
    \cup { OrOf(items) : items \in SeqsUpTo(SubtypeLeaves, MaxOrItems) }
    \cup { ArrayOf(leaf) : leaf \in SubtypeLeaves }
    \cup { ArrayOf(OrOf(<<Base(s_integer), Base(s_string)>>)),
           TupleOf(<<Base(s_integer)>>),
           TupleOf(<<Base(s_integer), Base(s_string)>>),
           TupleOf(<<IntegerLiteral(JInt(1)), Base(s_string)>>) }

SubtypeSchemas ==
    { Schema(<<StructItem(n_A, <<>>, <<>>, <<Prop(n_id, parent_type, FALSE, None)>>),
               StructItem(n_D, <<Ref(n_A)>>, <<>>,
                          <<Prop(n_id, child_type, FALSE, None)>>)>>,
             <<>>, <<>>, <<>>, <<>>) :
        parent_type \in SubtypeTypes, child_type \in SubtypeTypes }

InitSubtype == \E schema \in SubtypeSchemas : Start(schema)

SpecSubtype == InitSubtype /\ [][Next]_vars

\* The least relation closed under the clauses of the safe-subtype
\* definition: equal types; a subtype of some arm of a parent or; a child or
\* whose every arm is a subtype; a base and its literals or the same base;
\* literals of equal value; references of equal name; containers
\* element-wise.
RECURSIVE SafeSubtype(_, _)
SafeSubtype(child, parent) ==
    \/ child = parent
    \/ /\ parent.kind = "or"
       /\ \E i \in DOMAIN parent.items : SafeSubtype(child, parent.items[i])
    \/ /\ child.kind = "or"
       /\ \A i \in DOMAIN child.items : SafeSubtype(child.items[i], parent)
    \/ /\ parent.kind = "base"
       /\ \/ child.kind = "base" /\ child.name = parent.name
          \/ parent.name = s_string /\ child.kind = "stringLiteral"
          \/ parent.name = s_integer /\ child.kind = "integerLiteral"
          \/ /\ parent.name = s_uinteger
             /\ child.kind = "integerLiteral"
             /\ IsInt(child.value)
             /\ child.value.int >= 0
          \/ parent.name = s_boolean /\ child.kind = "booleanLiteral"
    \/ /\ parent.kind \in {"stringLiteral", "integerLiteral", "booleanLiteral"}
       /\ child.kind = parent.kind
       /\ child.value = parent.value
    \/ /\ parent.kind = "reference"
       /\ child.kind = "reference"
       /\ child.name = parent.name
    \/ /\ parent.kind = "array"
       /\ child.kind = "array"
       /\ SafeSubtype(child.element, parent.element)
    \/ /\ parent.kind = "map"
       /\ child.kind = "map"
       /\ SafeSubtype(child.key, parent.key)
       /\ SafeSubtype(child.value, parent.value)
    \/ /\ parent.kind = "tuple"
       /\ child.kind = "tuple"
       /\ Len(parent.items) = Len(child.items)
       /\ \A i \in DOMAIN child.items : SafeSubtype(child.items[i], parent.items[i])

\* C17 as stated: is_type_subtype is the least relation closed under the
\* clauses of the safe-subtype definition, so D's id overrides A's without
\* an unsafe-override diagnostic exactly when its type is related to A's;
\* in particular a child or [a, b] is a subtype of a parent or [a, b, c].
C17_SubtypeIsLeastRelation ==
    pc = "done" =>
        LET parent_type == model.structures[n_A].properties[1].type_expr
            child_type == model.structures[n_D].properties[1].type_expr
        IN  /\ is_type_subtype(child_type, parent_type)
                = SafeSubtype(child_type, parent_type)
            /\ (Diagnosed(n_D) = {}) = SafeSubtype(child_type, parent_type)

\* ------------------------------------------------------------ cyclic graphs

\* The nodes of graph that stand on a cycle.
OnCycle(graph) == {n \in DOMAIN graph : n \in Descendants(graph, graph[n], {})}

\* The nodes Kahn's algorithm cannot release: those on a cycle and those
\* that depend on one.
LeftOver(graph) ==
    {n \in DOMAIN graph : Descendants(graph, {n}, {}) \cap OnCycle(graph) # {}}

\* Some diagnostic of the run has been recorded, whatever its partition.
SomeDiagnostic == \E part \in DOMAIN diagnostics : diagnostics[part] # <<>>

\* C18 as stated: when the dependency graph has a cycle the order still
\* holds every node once, the nodes Kahn's algorithm left over stand behind
\* the others in sorted (kind, name) order, and a diagnostic is recorded
\* for the run.
C18_CycleIsOrderedAndDiagnosed ==
    (pc = "done" /\ ~Acyclic(deps)) =>
        /\ Len(node_order) = Len(nodes)
        /\ Range(node_order) = Range(nodes)
        /\ SubSeq(node_order, Len(node_order) - Cardinality(LeftOver(deps)) + 1,
                  Len(node_order))
               = SortedNodes(LeftOver(deps))
        /\ SomeDiagnostic

\* ------------------------------------------------------------ order of the extras

\* The blocks behind the blocks of the emission order.
BehindOrder == SubSeq(body_blocks, Len(node_order) + 1, Len(body_blocks))

\* The one-to-one assignments of the blocks behind the order to the
\* synthesized entries they were emitted for.
EntryOfBlock ==
    { entry \in [DOMAIN BehindOrder -> DOMAIN extra_params] :
        /\ \A i, j \in DOMAIN BehindOrder : i # j => entry[i] # entry[j]
        /\ \A i \in DOMAIN BehindOrder :
               BehindOrder[i].name = name_map[extra_params[entry[i]].name] }

\* The synthesized structs are exactly the blocks behind the order.
ExtrasBehindOrder ==
    /\ Len(BehindOrder) = Len(extra_params)
    /\ \A i \in 1..Len(node_order) : body_blocks[i].kind # "X"
    /\ \A i \in DOMAIN BehindOrder : BehindOrder[i].kind = "X"

MaxParents == 3

ParentChoices == {Ref(n_A), Ref(n_D), Ref(n_K), Ref(n_C), Base(s_string)}

\* (extends, mixins) of struct C
SplitParents ==
    UNION { { << SubSeq(parents, 1, cut), SubSeq(parents, cut + 1, Len(parents)) >> :
                cut \in 0..Len(parents) } :
            parents \in SeqsUpTo(ParentChoices, MaxParents) }

FlattenSchemas ==
    { Schema(<< StructItem(n_A, <<>>, <<>>, <<Prop(n_a, Base(s_integer), FALSE, None)>>),
                StructItem(n_C, parents[1], parents[2], props_c),
                StructItem(n_D, <<>>, <<>>, <<Prop(n_d, type_d, FALSE, None)>>) >>,
             <<EnumK>>, <<>>, <<>>, <<>>) :
        parents \in SplitParents,
        props_c \in { <<>>,
                      <<Prop(n_a, Base(s_integer), FALSE, None),
                        Prop(n_p, Ref(n_A), TRUE, None)>> },
        type_d \in {Base(s_integer), Ref(n_C)} }

InitFlatten == \E schema \in FlattenSchemas : Start(schema)

SpecFlatten == InitFlatten /\ [][Next]_vars

\* The parents of a struct that are structs, in the order of its parents.
StructParents(child) ==
    SelectSeq(model.structures[child].parents, LAMBDA parent : parent \in struct_names(model))

\* The place of a node in the emission order.
PlaceOf(node) == CHOOSE i \in DOMAIN node_order : node_order[i] = node

\* No dependency cycle, and no struct that is its own parent.
AcyclicSchema ==
    /\ Acyclic(deps)
    /\ \A s \in struct_names(model) : s \notin Range(model.structures[s].parents)

\* C20: the block of a struct with more than one parent holds one
\* flatten<Parent> member for each of its parents that is a struct, in the
\* order of the parents (extends, then mixins), then its own properties in
\* their order, and no inherited property; when the schema has no cycle
\* each of those parents stands before the struct in the emission order.
C20_MultiParentFlattens ==
    \A child \in struct_names(model) :
        (Emitted_(child) /\ Len(model.structures[child].parents) > 1) =>
            LET block == BlockOf(child)
                parents == StructParents(child)
                locals == model.structures[child].properties
            IN  /\ Len(block.members) = Len(parents) + Len(locals)
                /\ \A i \in DOMAIN parents :
                       block.members[i].cxx_type
                           = <<"flatten<">> \o name_map[parents[i]] \o <<">">>
                /\ \A i \in DOMAIN locals :
                       /\ block.members[Len(parents) + i].base_name
                              = property_member_name(locals[i].name).text
                       /\ block.members[Len(parents) + i].cxx_type[1] # "flatten<"
                /\ \A i \in DOMAIN block.members : block.members[i].inherited_from = None
                /\ AcyclicSchema =>
                       \A i \in DOMAIN parents :
                           PlaceOf(<<"S", parents[i]>>) < PlaceOf(<<"S", child>>)

\* C has been emitted with the parents A, K and D in an acyclic schema:
\* two flatten members, the enum passed over, two properties of its own.
C20_Witness ==
    /\ pc = "done"
    /\ AcyclicSchema
    /\ model.structures[n_C].parents = <<n_A, n_K, n_D>>
    /\ input.structures[2].extends = <<Ref(n_A)>>
    /\ Len(BlockOf(n_C).members) = 4
    /\ BlockOf(n_C).members[2].cxx_type = <<"flatten<">> \o name_map[n_D] \o <<">">>
    /\ PlaceOf(<<"S", n_D>>) < PlaceOf(<<"S", n_C>>)

\* ------------------------------------------------------------ references in members
\* The structs A and B, the enum K and the alias T; A may extend B, and the
\* property of each refers to A, to B, to K or to T, bare or inside a
\* container.

RefTypes ==
    { Base(s_integer), Ref(n_A), Ref(n_B), Ref(n_K), Ref(n_T), ArrayOf(Ref(n_B)),
      OrOf(<<Ref(n_A), Ref(n_K)>>) }

RefProps(name) ==
    {<<>>} \cup {<<Prop(name, type, optional, None)>> : type \in RefTypes, optional \in BOOLEAN}

RefSchemas ==
    { Schema(<< StructItem(n_A, extends, <<>>, props_a),
                StructItem(n_B, <<>>, <<>>, props_b) >>,
             <<EnumK>>, <<AliasItem(n_T, alias_type)>>, <<>>, <<>>) :
        extends \in {<<>>, <<Ref(n_B)>>},
        props_a \in RefProps(n_a), props_b \in RefProps(n_b),
        alias_type \in {Base(s_integer), Ref(n_B)} }

InitRefs == \E schema \in RefSchemas : Start(schema)

SpecRefs == InitRefs /\ [][Next]_vars

\* The rendered text holds the name.
Mentions(text, name) ==
    \E i \in 1..(Len(text) - Len(name) + 1) : SubSeq(text, i, i + Len(name) - 1) = name

\* The nodes other than the struct itself whose target name stands in the
\* type of a member of the block.
MentionedNodes(block) ==
    { node \in Range(nodes) :
        /\ node # <<"S", block.schema_name>>
        /\ \E i \in DOMAIN block.members :
               Mentions(block.members[i].cxx_type, name_map[node[2]]) }

\* C21 as stated: in a schema without a cycle every struct, enum and alias
\* whose name stands in a member type of an emitted struct, the struct
\* itself apart, stands before the struct in the emission order; so when
\* the struct inherits a property in which its parent refers to itself.
C21_MentionedIsEmittedFirst ==
    (pc \in {"emit", "done"} /\ AcyclicSchema) =>
        \A block \in StructBlocks :
            \A node \in MentionedNodes(block) :
                PlaceOf(node) < PlaceOf(<<"S", block.schema_name>>)

\* ------------------------------------------------------------ chains of overrides
\* The chain G <- P <- C, each link present or not; P redeclares G's id
\* with the same type, a narrower one, another one or as optional, or
\* declares b instead; C declares d, id or nothing.

n_G == <<"G">>
n_P == <<"P">>

ChainPropsP ==
    { <<IntegerProp(n_b)>>,
      <<IntegerProp(n_id)>>,
      <<Prop(n_id, IntegerLiteral(JInt(1)), FALSE, None), IntegerProp(n_b)>>,
      <<Prop(n_id, Base(s_string), FALSE, None)>>,
      <<Prop(n_id, Base(s_integer), TRUE, None)>> }

ChainPropsC == { <<>>, <<IntegerProp(n_d)>>, <<IntegerProp(n_id)>> }

ChainSchemas ==
    { Schema(<< StructItem(n_G, <<>>, <<>>, <<Prop(n_id, type_g, FALSE, None)>>),
                StructItem(n_P, parents_p, <<>>, props_p),
                StructItem(n_C, parents_c, <<>>, props_c) >>,
             <<>>, <<>>, <<>>, <<>>) :
        type_g \in {Base(s_integer), Base(s_string)},
        parents_p \in {<<>>, <<Ref(n_G)>>}, parents_c \in {<<>>, <<Ref(n_P)>>, <<Ref(n_G)>>},
        props_p \in ChainPropsP, props_c \in ChainPropsC }

InitChain == \E schema \in ChainSchemas : Start(schema)

SpecChain == InitChain /\ [][Next]_vars

\* What members declare: the name, the type and the default of each, in
\* order.
Declared_(members) ==
    [i \in DOMAIN members |->
        [ name |-> members[i].name,
          cxx_type |-> members[i].cxx_type,
          default_value |-> members[i].default_value ]]

\* The inherited members of a block, in order.
InheritedMembers(block) ==
    SelectSeq(block.members, LAMBDA member : member.inherited_from # None)

\* No property of the child's own has the member name of a member its
\* parent emits.
NoConflictingLocal(child, parent) ==
    \A i \in DOMAIN model.structures[child].properties :
        \A j \in DOMAIN BlockOf(parent).members :
            property_member_name(model.structures[child].properties[i].name).text
                # BlockOf(parent).members[j].base_name

\* C22 as stated: the inherited members of a single-parent child with no
\* conflicting property of its own are exactly the members its parent
\* emits, and no collision diagnostic is recorded for the child; a
\* property of G that P safely overrides does not reappear in C.
C22_ChildInheritsWhatParentEmits ==
    \A child \in struct_names(model) :
        (pc = "done" /\ SingleParent(child)
         /\ NoConflictingLocal(child, model.structures[child].parents[1])) =>
            LET parent == BlockOf(model.structures[child].parents[1])
                block == BlockOf(child)
            IN  /\ Declared_(InheritedMembers(block)) = Declared_(parent.members)
                /\ \A i \in DOMAIN diagnostics.member_collision_warnings :
                       diagnostics.member_collision_warnings[i].struct # child

\* ------------------------------------------------------------ top-level declarations
\* One struct, one enum and one alias whose names may coincide with each
\* other and with the names MParams and NParams synthesized for a request
\* m and a notification m or n without params.

n_MParams == <<"M">> \o s_Params
n_NParams == <<"N">> \o s_Params

DeclSchemas ==
    { Schema(<<StructItem(struct_name, <<>>, <<>>, <<>>)>>,
             <<EnumItem(enum_name, Base(s_string), <<>>, FALSE)>>,
             <<AliasItem(alias_name, Base(s_string))>>,
             <<RequestItem(n_m, type_name, request_params, NoneExpr)>>,
             <<NotificationItem(method, None, notification_params)>>) :
        struct_name \in {n_A, n_MParams, n_NParams},
        enum_name \in {n_K, n_A, n_MParams},
        alias_name \in {n_T, n_A, n_NParams},
        type_name \in {None, n_ARequest},
        request_params \in {NoneExpr, Base(s_integer)},
        method \in {n_m, n_n},
        notification_params \in {NoneExpr, Base(s_integer)} }

InitDecls == \E schema \in DeclSchemas : Start(schema)

SpecDecls == InitDecls /\ [][Next]_vars

\* C23 as stated: no two blocks of the header declare the same identifier,
\* whether they are structs, enums, aliases or synthesized-params structs.
C23_DeclarationsAreDistinct ==
    pc = "done" =>
        \A i, j \in DOMAIN body_blocks :
            i # j => body_blocks[i].name # body_blocks[j].name

\* ------------------------------------------------------------ enum member names
\* One enum E, over string or integer, open or closed, whose values are
\* named a, A and a2 in every order and with repetitions, and a struct S
\* with a property of one of these string literals.

\* How many values the enum declares at most.
MaxEnumNames == 3

n_a2 == <<"a", "2">>

EnumTexts == {n_a, n_A, n_a2}

NamedValues(base, texts) ==
    [i \in DOMAIN texts |->
        EnumValue(texts[i], IF base = s_string THEN JStr(texts[i]) ELSE JInt(i))]

EnumNameSchemas ==
    { Schema(<<StructItem(n_S, <<>>, <<>>,
                          <<Prop(n_p, StringLiteral(JStr(text)), FALSE, None)>>)>>,
             <<EnumItem(n_E, Base(base), NamedValues(base, texts), open)>>,
             <<>>, <<>>, <<>>) :
        base \in {s_string, s_integer}, texts \in SeqsUpTo(EnumTexts, MaxEnumNames),
        open \in BOOLEAN, text \in EnumTexts }

InitEnumNames == \E schema \in EnumNameSchemas : Start(schema)

SpecEnumNames == InitEnumNames /\ [][Next]_vars

\* The member of the enum that the default of a struct member names, if it
\* names one: the default reads Enum::Member.
NamedBy(default_value, owner) ==
    { i \in DOMAIN owner.members :
        default_value = owner.name \o <<"::">> \o owner.members[i].name }

\* C24 as stated: the member names of every emitted enum are pairwise
\* distinct, the values a, A, a2 included, and the default Enum::Member of
\* a folded string literal names a member the enum declares for the
\* literal.
C24_EnumMembersAreDistinct ==
    pc = "done" =>
        /\ \A block \in EnumBlocks :
               \A i, j \in DOMAIN block.members :
                   i # j => block.members[i].name # block.members[j].name
        /\ \A block \in StructBlocks :
               \A i \in DOMAIN block.members :
                   block.members[i].default_value # None =>
                       \E owner \in EnumBlocks :
                           \E k \in NamedBy(block.members[i].default_value, owner) :
                               owner.members[k].value
                                   = model.structures[block.schema_name]
                                         .properties[i].type_expr.value

\* ------------------------------------------------------------ topological_order alone
\* topological_order on every list of distinct nodes out of A, B and K and
\* every dependency map over them, with dependencies on nodes outside the
\* list (T is never in it), on the node itself and in cycles.

OrderUniverse == {<<"S", n_A>>, <<"S", n_B>>, <<"E", n_K>>}

OrderOutside == {<<"A", n_T>>}

OrderInputs ==
    UNION { { [nodes |-> SortedNodes(node_set), deps |-> dep_map] :
                dep_map \in [node_set -> SUBSET (OrderUniverse \cup OrderOutside)] } :
            node_set \in (SUBSET OrderUniverse) \ {{}} }

\* The call topological_order(nodes, deps), at the head of its loop.
Called(nodes_in, deps_in) ==
    /\ input = Schema(<<>>, <<>>, <<>>, <<>>, <<>>)
    /\ pc = "kahn"
    /\ model = NoModel
    /\ extra_params = <<>>
    /\ name_map = <<>>
    /\ flattened_property_cache = <<>>
    /\ struct_dep_cache = <<>>
    /\ deps = deps_in
    /\ nodes = nodes_in
    /\ kahn = kahn_setup(nodes_in, deps_in)
    /\ node_order = <<>>
    /\ body_blocks = <<>>
    /\ diagnostics = NoDiagnostics
    /\ traits = [requests |-> <<>>, notifications |-> <<>>]

InitOrder == \E call \in OrderInputs : Called(call.nodes, call.deps)

NextOrder == KahnPop \/ KahnFinish

SpecOrder == InitOrder /\ [][NextOrder]_vars

\* C25: the list topological_order returns holds every node of its input
\* exactly once, cycles or not, dependencies outside the list or not.
C25_OrderIsPermutation ==
    pc = "emit" =>
        /\ Len(node_order) = Len(nodes)
        /\ \A n \in Range(nodes) :
               Cardinality({i \in DOMAIN node_order : node_order[i] = n}) = 1

\* A list of three nodes has been ordered of which one was released by the
\* loop, two stand on a cycle, and one depends on a node outside the list.
C25_Witness ==
    /\ pc = "emit"
    /\ Len(nodes) = 3
    /\ Len(kahn.ordered) = 1
    /\ \E n \in Range(nodes) : deps[n] \cap OrderOutside # {}
    /\ ~Acyclic([n \in Range(nodes) |-> deps[n] \cap Range(nodes)])

\* ------------------------------------------------------------ termination
\* The structs A and B, each without a parent, extending the other or
\* extending itself, with properties that refer to A, to B or to neither,
\* and the alias T that refers to itself or to A: parent chains and
\* dependency graphs with cycles.

LoopSchemas ==
    { Schema(<< StructItem(n_A, parents_a, <<>>, <<Prop(n_a, type_a, FALSE, None)>>),
                StructItem(n_B, parents_b, <<>>, <<Prop(n_b, type_b, FALSE, None)>>) >>,
             <<>>, <<AliasItem(n_T, alias_type)>>, <<>>, <<>>) :
        parents_a \in {<<>>, <<Ref(n_B)>>, <<Ref(n_A)>>},
        parents_b \in {<<>>, <<Ref(n_A)>>, <<Ref(n_B)>>},
        type_a \in {Base(s_integer), Ref(n_B), Ref(n_A)},
        type_b \in {Base(s_integer), Ref(n_A)},
        alias_type \in {Ref(n_T), Ref(n_A)} }

InitLoops == \E schema \in LoopSchemas : Start(schema)

\* generate_protocol_header has neither returned nor raised.
Running == pc \notin {"done", "raised"}

\* The condition under which one of the steps can be taken, from the
\* conditions of the steps.
CanStep ==
    \/ pc = "parse"
    \/ pc = "deps"
    \/ pc = "kahn"
    \/ pc = "emit" /\ Len(body_blocks) <= Len(node_order)

\* The steps of generate_protocol_header follow one another in one thread:
\* as long as it is running it goes on to its next step.
SpecLoops == InitLoops /\ [][Next]_vars /\ ([]<>~Running \/ []<><<Next>>_vars)

\* C26: generation terminates on every schema; the flattening of a cyclic
\* parent chain returns and the loop of topological_order runs out of
\* nodes on a cyclic dependency graph, so that a step is at hand until the
\* header is completed, and it is completed.
C26_GenerationTerminates == [](Running => CanStep) /\ <>(pc = "done")

\* The header has been completed for A extends B extends A with a cycle
\* in the dependency graph.
C26_Witness ==
    /\ pc = "done"
    /\ model.structures[n_A].parents = <<n_B>>
    /\ model.structures[n_B].parents = <<n_A>>
    /\ ~Acyclic(deps)
    /\ Len(body_blocks) = 3

\* ------------------------------------------------------------ the flattening cache

\* What collect_flattened_properties returns for the struct on a cache
\* that holds nothing.
FreshlyFlattened(struct_name) ==
    collect_flattened_properties(model, <<>>, struct_name, {}).out

\* C27 as stated: whatever calls have filled the cache, and in whatever
\* order, collect_flattened_properties returns for every struct the list it
\* returns on an empty cache, cyclic parent chains included.
C27_CacheIsTransparent ==
    pc = "deps" =>
        \A struct_name \in struct_names(model) :
            collect_flattened_properties(model, flattened_property_cache, struct_name, {}).out
                = FreshlyFlattened(struct_name)

====
